---------------------------- MODULE Spec2Model ----------------------------
(***************************************************************************)
(* A model of the digitransit geocoder: the OpenStreetMap address import   *)
(* (src/osm_pbf.py) with its municipality lookup and address store, and    *)
(* the interpolation endpoint of the web API (src/geocoder/app.py and the  *)
(* older src/app.py).                                                      *)
(*                                                                         *)
(* Coordinates are Python floats in the code.  The model keeps them exact: *)
(* a point is <<nx, ny, d>> and stands for (nx/d, ny/d), d > 0, in lowest  *)
(* terms.  Rounding of floats is outside the model.                        *)
(***************************************************************************)
EXTENDS Integers, Sequences, FiniteSets, TLC

VARIABLES
    boundaryFile,   \* the municipality file (sys.argv[2]) as mml_municipalities.parse yields it
    municipalities, \* osm_pbf.municipalities: list of (name, polygon)
    idx,            \* osm_pbf.idx: the rtree, a set of <<id, bounds>>
    addresses,      \* osm_pbf.addresses: dict, kept as a set of <<key, location>>
    submitted,      \* history: the add_address calls made so far, in order
    apiApp,         \* the web application serving: "geocoder" (src/geocoder/app.py)
                    \* or "legacy" (src/app.py)
    segments,       \* the interpolated_address documents of the document store
    handler,        \* the InterpolateHandler of the request: its position and
                    \* self.streetnumber, self.side, and the term it asked for
    usedHit,        \* transform_es: its local street, the hit it reads, <<>> before
    fraction,       \* transform_es: the fraction it computed, <<>> before
    response,       \* the HTTP response, <<>> before
    osmFile,        \* the pbf file (sys.argv[1]): a set of blocks [kind, elems]
    pending,        \* the blocks no callback has been called with yet
    coords,         \* osm_pbf.coords: id -> (lon, lat)
    nodes,          \* osm_pbf.nodes: id -> <<tags, lonlat, associated street>>
    ways,           \* osm_pbf.ways: id -> <<tags, node ids, associated street>>
    relations,      \* osm_pbf.relations: id -> <<tags, targets>>
    pc,             \* where main() is: "create_index", "setup", "parse", "link", "nodes", "ways",
                    \* "emit", "done", or "crashed" after an uncaught exception
    todo,           \* the items the running for loop of main() has yet to visit
    operations,     \* main(): the local list of lines 269-280
    sent,           \* the bulk requests made so far: [doctype, operations]
    linkOrder,      \* history: the relations in the order the loop of line 190 took them
    origins,        \* history: for each add_address call, who made it
    visited,        \* history: the <<"node", id>>, <<"way", id>> the loops of
                    \* lines 207 and 217 have taken
    active,         \* for each kind of callback, the calls that have started and
                    \* not returned: [block, rest, operations]
    writes,         \* history: for each cache, the blocks whose call wrote
                    \* it, one entry per write, in order
    esPlan,         \* what the document store does with the n-th bulk request
                    \* of the run; "ok" beyond its domain
    setup,          \* history: the calls main() made to set the index up,
                    \* [op, doctype, outcome], in order
    request,        \* a request to the web API of src/geocoder/app.py: its
                    \* endpoint, its Origin header and how far its handler is
    reply,          \* the handler's response: status, headers, body and the
                    \* number of times it was finished; <<>> before
    csvfile,        \* the CSV file an address import reads: which module
                    \* reads it, its data rows, and the row that is next
    yielded,        \* the index operations documents() has yielded, in order
    ingest          \* the import of road segments (mml_addresses.py): the
                    \* module, its files, where its generator stands, the
                    \* operations bulk_chunks holds and all it has yielded

locatorVars == <<boundaryFile, municipalities, idx>>

storeVars == <<addresses, submitted>>

apiVars == <<apiApp, segments, handler, usedHit, fraction, response>>

cacheVars == <<coords, nodes, ways, relations>>

threadVars == <<active, writes>>

osmVars == <<osmFile, pending, cacheVars, pc, todo, operations, sent,
             linkOrder, origins, visited, threadVars>>

Kinds == {"coords", "nodes", "ways", "relations"}

esVars == <<esPlan, setup>>

webVars == <<request, reply>>

csvVars == <<csvfile, yielded>>

ingestVars == <<ingest>>

vars == <<locatorVars, storeVars, apiVars, osmVars, esVars, webVars, csvVars, ingestVars>>

\* Python's None
None == "None"

-----------------------------------------------------------------------------
(* Exact arithmetic *)

Abs(n) == IF n < 0 THEN -n ELSE n

Min2(a, b) == IF a <= b THEN a ELSE b

Max2(a, b) == IF a >= b THEN a ELSE b

RECURSIVE Gcd(_, _)
Gcd(a, b) == IF b = 0 THEN Abs(a) ELSE Gcd(b, a % Abs(b))

\* the point (nx/d, ny/d) in lowest terms with a positive denominator
Pt(nx, ny, d) ==
    LET s == IF d < 0 THEN -1 ELSE 1
        g == Gcd(Gcd(Abs(nx), Abs(ny)), Abs(d))
    IN  <<(s * nx) \div g, (s * ny) \div g, (s * d) \div g>>

\* a point with integer coordinates, as the parser or a test gives it
IntPt(x, y) == <<x, y, 1>>

SetMin(S) == CHOOSE m \in S : \A n \in S : m <= n

SetMax(S) == CHOOSE m \in S : \A n \in S : m >= n

-----------------------------------------------------------------------------
(* shapely geometry, as far as osm_pbf.py uses it.  A polygon is the       *)
(* sequence of the integer vertices of its exterior ring; shapely closes   *)
(* the ring itself when the last vertex is not the first.                  *)

\* the i-th edge of the closed ring, i in 1..Len(ring)
EdgeFrom(ring, i) == ring[i]

EdgeTo(ring, i) == ring[(i % Len(ring)) + 1]

\* Polygon.bounds: (minx, miny, maxx, maxy)
Bounds(ring) ==
    LET xs == {ring[i][1] : i \in DOMAIN ring}
        ys == {ring[i][2] : i \in DOMAIN ring}
    IN  <<SetMin(xs), SetMin(ys), SetMax(xs), SetMax(ys)>>

\* p lies on the edge a-b
OnEdge(a, b, p) ==
    LET d == p[3]
    IN  /\ (b[1] - a[1]) * (p[2] - a[2] * d) = (b[2] - a[2]) * (p[1] - a[1] * d)
        /\ Min2(a[1], b[1]) * d <= p[1] /\ p[1] <= Max2(a[1], b[1]) * d
        /\ Min2(a[2], b[2]) * d <= p[2] /\ p[2] <= Max2(a[2], b[2]) * d

\* the horizontal ray from p to the right crosses the edge a-b
RayCrosses(a, b, p) ==
    LET d  == p[3]
        dy == b[2] - a[2]
        lhs == p[1] * dy
        rhs == a[1] * d * dy + (p[2] - a[2] * d) * (b[1] - a[1])
    IN  /\ (a[2] * d > p[2]) # (b[2] * d > p[2])
        /\ IF dy > 0 THEN lhs < rhs ELSE lhs > rhs

\* geom.contains(Point): true for the points of the interior only, a point
\* of the boundary is not contained
Contains(ring, p) ==
    /\ \A i \in DOMAIN ring : ~OnEdge(EdgeFrom(ring, i), EdgeTo(ring, i), p)
    /\ Cardinality({i \in DOMAIN ring :
            RayCrosses(EdgeFrom(ring, i), EdgeTo(ring, i), p)}) % 2 = 1

RECURSIVE SeqSum(_)
SeqSum(s) == IF s = <<>> THEN 0 ELSE Head(s) + SeqSum(Tail(s))

Cross(a, b) == a[1] * b[2] - b[1] * a[2]

\* twice the signed area of the ring
Area2(ring) ==
    SeqSum([i \in DOMAIN ring |-> Cross(EdgeFrom(ring, i), EdgeTo(ring, i))])

\* the two sums of the centroid formula: 6 * area * cx and 6 * area * cy
CentroidSumX(ring) ==
    SeqSum([i \in DOMAIN ring |->
        (EdgeFrom(ring, i)[1] + EdgeTo(ring, i)[1])
            * Cross(EdgeFrom(ring, i), EdgeTo(ring, i))])

CentroidSumY(ring) ==
    SeqSum([i \in DOMAIN ring |->
        (EdgeFrom(ring, i)[2] + EdgeTo(ring, i)[2])
            * Cross(EdgeFrom(ring, i), EdgeTo(ring, i))])

\* Polygon(ring).centroid of a ring that encloses an area
\* the mean of the listed vertices instead of the centroid of the area
CentroidOfVertices(ring) ==
    Pt(SeqSum([i \in DOMAIN ring |-> ring[i][1]]),
       SeqSum([i \in DOMAIN ring |-> ring[i][2]]), Len(ring))

Centroid(ring) ==
    Pt(CentroidSumX(ring), CentroidSumY(ring), 3 * Area2(ring))

-----------------------------------------------------------------------------
(* Python dicts, kept as sets of <<key, value>> pairs *)

DictHas(d, k) == \E e \in d : e[1] = k

DictGet(d, k) == (CHOOSE e \in d : e[1] = k)[2]

DictKeys(d) == {e[1] : e \in d}

\* Python dicts with one value per key by construction: functions
EmptyDict == [k \in {} |-> None]

Put(f, k, v) == [x \in DOMAIN f \cup {k} |-> IF x = k THEN v ELSE f[x]]

\* d[k] = v without dropping the pair k had
DictSetKeepingOld(d, k, v) == d \cup {<<k, v>>}

\* d[k] = v
DictSet(d, k, v) == {e \in d : e[1] # k} \cup {<<k, v>>}

-----------------------------------------------------------------------------
(* The municipality locator: osm_pbf.py lines 39-51 and 121-127 *)

\* the municipality documents of the model: nimi and the GeoJSON
\* MultiPolygon coordinates (parts, each a list of rings)
HelsinkiRing == << <<0, 0>>, <<4, 0>>, <<4, 4>>, <<0, 4>> >>

Helsinki == [nimi |-> "Helsinki", boundaries |-> << <<HelsinkiRing>> >>]

\* a triangle whose bounding box reaches over Helsinki
EspooRing == << <<2, 2>>, <<6, 2>>, <<6, 6>> >>

Espoo == [nimi |-> "Espoo", boundaries |-> << <<EspooRing>> >>]

\* overlaps Helsinki; has a hole and a second part, both of which the
\* import leaves out
VantaaRing == << <<2, 1>>, <<6, 1>>, <<6, 3>>, <<2, 3>> >>

VantaaHole == << <<4, 1>>, <<5, 1>>, <<5, 2>> >>

VantaaIsland == << <<0, 5>>, <<2, 5>>, <<2, 6>>, <<0, 6>> >>

Vantaa ==
    [nimi |-> "Vantaa",
     boundaries |-> << <<VantaaRing, VantaaHole>>, <<VantaaIsland>> >>]

MunicipalityDocs == {Helsinki, Espoo, Vantaa}

\* every file of one to three different documents, in every order
BoundaryFiles ==
    {f \in UNION {[1..n -> MunicipalityDocs] : n \in 1..3} :
        \A i, j \in DOMAIN f : i # j => f[i] # f[j]}

\* the file the import and the store runs use
StandardBoundaryFile == <<Helsinki, Espoo>>

\* Polygon(m['boundaries']['coordinates'][0][0]): the exterior ring of the
\* first part
MunicipalityPolygon(m) == m.boundaries[1][1]

\* Polygon.bounds with the coordinates in the order (minx, maxx, miny, maxy)
BoundsAxisMajor(ring) ==
    <<Bounds(ring)[1], Bounds(ring)[3], Bounds(ring)[2], Bounds(ring)[4]>>

\* polygon.bounds as line 51 hands it to the index
PolygonBounds(ring) == Bounds(ring)

\* lines 48-50: municipalities after the loop; Python's index i is i + 1 here
LoadMunicipalities(file) ==
    [i \in DOMAIN file |-> <<file[i].nimi, MunicipalityPolygon(file[i])>>]

\* lines 48-51: the index after the loop, one entry (i, bounds) per document
LoadIndex(file) ==
    {<<i - 1, PolygonBounds(MunicipalityPolygon(file[i]))>> : i \in DOMAIN file}

\* idx.intersection((x, y, x, y)): the ids whose box meets the point
IdxIntersection(index, p) ==
    {e[1] : e \in {e \in index :
        /\ e[2][1] * p[3] <= p[1] /\ p[1] <= e[2][3] * p[3]
        /\ e[2][2] * p[3] <= p[2] /\ p[2] <= e[2][4] * p[3]}}

\* lines 122-127: the names the loop can end with.  The rtree gives its hits
\* in an order of its own, so with several containing polygons any of them
\* can be the first.
LookupMunicipality(location) ==
    LET hits == {i \in IdxIntersection(idx, location) :
                    Contains(municipalities[i + 1][2], location)}
    IN  IF hits = {} THEN {None} ELSE {municipalities[i + 1][1] : i \in hits}

-----------------------------------------------------------------------------
(* The address store: add_address, osm_pbf.py lines 120-141 *)

\* lines 129-141 write the first location of a key only
StoreFirstWriterOnly(store, address, location, main) ==
    IF DictHas(store, address) THEN store
    ELSE DictSet(store, address, location)

\* lines 129-141: the dict after the call
StoreAfter(store, address, location, main) ==
    IF DictHas(store, address)
    THEN IF main THEN DictSet(store, address, location) ELSE store
    ELSE DictSet(store, address, location)

\* one add_address call on the state st = [addresses, submitted]: the states
\* it can end in
add_address(st, street, number, location, unit, main, municipality) ==
    {[addresses |-> StoreAfter(st.addresses, <<m, street, number, unit>>,
                               location, main),
      submitted |-> Append(st.submitted,
                       [street |-> street, number |-> number,
                        location |-> location, unit |-> unit, main |-> main,
                        address |-> <<m, street, number, unit>>])] :
        m \in IF municipality = None THEN LookupMunicipality(location)
              ELSE {municipality}}

StoreState == [addresses |-> addresses, submitted |-> submitted]

-----------------------------------------------------------------------------
(* Runs of the store alone: any sequence of add_address calls *)

MaxSubmissions == 3

MaxLookups == 1

\* the lookups probe the points (x/2, y/2) for x, y in 0..GridMax
GridMax == 12

Streets == {"Testroad", "Sivukuja"}

Units == {None, "A"}

\* two points of Helsinki and one outside every municipality
StorePoints == {IntPt(1, 1), IntPt(3, 1), IntPt(1, 5)}

GridPoints == {Pt(x, y, 2) : x \in 0..GridMax, y \in 0..GridMax}

InitLocator(file) ==
    /\ boundaryFile = file
    /\ municipalities = LoadMunicipalities(file)
    /\ idx = LoadIndex(file)

\* no request to the web API
InitWebOff ==
    /\ request = [state |-> "off"]
    /\ reply = <<>>
    /\ csvfile = [module |-> "off"]
    /\ yielded = <<>>
    /\ ingest = [module |-> "off"]

\* no web application running
InitApiOff ==
    /\ InitWebOff
    /\ apiApp = "off"
    /\ segments = {}
    /\ handler = [state |-> "off"]
    /\ usedHit = <<>>
    /\ fraction = <<>>
    /\ response = <<>>

\* the caches of a process that has parsed nothing
InitCaches ==
    /\ coords = EmptyDict
    /\ nodes = EmptyDict
    /\ ways = EmptyDict
    /\ relations = EmptyDict
    /\ operations = <<>>
    /\ sent = <<>>
    /\ todo = {}
    /\ linkOrder = <<>>
    /\ origins = <<>>
    /\ visited = {}
    /\ active = [k \in Kinds |-> {}]
    /\ writes = [k \in Kinds |-> <<>>]

\* a document store that takes every bulk request
AllOk == <<>>

InitEsUp ==
    /\ esPlan = AllOk
    /\ setup = <<>>

\* add_address called on its own, main() not running
InitOsmOff ==
    /\ osmFile = {}
    /\ pending = {}
    /\ pc = "off"
    /\ InitCaches
    /\ InitEsUp

InitStore ==
    /\ InitLocator(StandardBoundaryFile)
    /\ addresses = {}
    /\ submitted = <<>>
    /\ InitApiOff
    /\ InitOsmOff

Submit(street, number, location, unit, main) ==
    /\ \E st \in add_address(StoreState, street, number, location, unit, main, None) :
          /\ addresses' = st.addresses
          /\ submitted' = st.submitted
    /\ UNCHANGED <<ingestVars, csvVars, webVars, esVars, locatorVars, apiVars, osmVars>>

NextStore ==
    /\ Len(submitted) < MaxSubmissions
    /\ \E street \in Streets, unit \in Units, location \in StorePoints,
          main \in BOOLEAN :
          Submit(street, "5", location, unit, main)

SpecStore == InitStore /\ [][NextStore]_vars

\* C1: after any sequence of add_address calls the store holds at most one
\* location per key (municipality-or-None, street, number, unit-or-None).
C1_OneLocationPerKey ==
    /\ \A e1, e2 \in addresses : e1[1] = e2[1] => e1 = e2
    /\ \A k \in DOMAIN submitted : DictHas(addresses, submitted[k].address)

\* a key submitted twice from two places, the later call a main entrance
\* that replaces the location, next to a second key
C1_Witness ==
    /\ Cardinality(addresses) >= 2
    /\ \E i, j \in DOMAIN submitted :
          /\ i < j
          /\ submitted[i].address = submitted[j].address
          /\ submitted[i].location # submitted[j].location
          /\ submitted[j].main
          /\ DictGet(addresses, submitted[j].address) = submitted[j].location

\* C2: of two calls with the same key, exactly one of them flagged main and
\* no third call for the key, the main one's location is the stored one,
\* whichever came first.
C2_MainEntranceWins ==
    \A i, j \in DOMAIN submitted :
        ( /\ i # j
          /\ submitted[i].address = submitted[j].address
          /\ submitted[i].main
          /\ ~submitted[j].main
          /\ \A k \in DOMAIN submitted \ {i, j} :
                submitted[k].address # submitted[i].address )
        => /\ DictHas(addresses, submitted[i].address)
           /\ DictGet(addresses, submitted[i].address) = submitted[i].location

\* the main entrance arrives second, at another place, and takes the key over
C2_Witness ==
    \E i, j \in DOMAIN submitted :
        /\ j < i
        /\ submitted[i].address = submitted[j].address
        /\ submitted[i].main
        /\ ~submitted[j].main
        /\ submitted[i].location # submitted[j].location
        /\ \A k \in DOMAIN submitted \ {i, j} :
              submitted[k].address # submitted[i].address
        /\ DictGet(addresses, submitted[i].address) = submitted[i].location

-----------------------------------------------------------------------------
(* Runs of the locator: any municipality file, one call per probed point *)

InitLocate ==
    /\ \E file \in BoundaryFiles : InitLocator(file)
    /\ addresses = {}
    /\ submitted = <<>>
    /\ InitApiOff
    /\ InitOsmOff

NextLocate ==
    /\ Len(submitted) < MaxLookups
    /\ \E location \in GridPoints : Submit("Testroad", "5", location, None, FALSE)

SpecLocate == InitLocate /\ [][NextLocate]_vars

\* the documents of the file whose polygon has the point in its interior
Around(p) ==
    {i \in DOMAIN boundaryFile : Contains(MunicipalityPolygon(boundaryFile[i]), p)}

\* C6: the lookup of a call gives M for a point strictly inside polygon M and
\* no other polygon, and None for a point outside all polygons; entry i of
\* the index stands for the i-th (name, polygon) pair loaded.
C6_LookupFindsMunicipality ==
    /\ Cardinality(idx) = Len(boundaryFile)
    /\ Len(municipalities) = Len(boundaryFile)
    /\ \A e \in idx :
          /\ e[1] + 1 \in DOMAIN boundaryFile
          /\ municipalities[e[1] + 1] =
                <<boundaryFile[e[1] + 1].nimi,
                  MunicipalityPolygon(boundaryFile[e[1] + 1])>>
          /\ e[2] = Bounds(MunicipalityPolygon(boundaryFile[e[1] + 1]))
    /\ \A k \in DOMAIN submitted :
          LET p == submitted[k].location
              m == submitted[k].address[1]
          IN  /\ Cardinality(Around(p)) = 1 =>
                    \E i \in Around(p) : m = boundaryFile[i].nimi
              /\ Around(p) = {} => m = None

\* a point inside exactly one polygon and inside the bounding box of another
C6_Witness ==
    \E k \in DOMAIN submitted :
        /\ Cardinality(Around(submitted[k].location)) = 1
        /\ Cardinality(IdxIntersection(idx, submitted[k].location)) >= 2
        /\ submitted[k].address[1] # None
        /\ submitted[k].location[3] = 2

-----------------------------------------------------------------------------
(* The interpolation endpoint: InterpolateHandler of src/geocoder/app.py   *)
(* (lines 617-686) and of src/app.py (lines 201-242).                      *)
(*                                                                         *)
(* A segment document is [nimi, stored, vasen, oikea, location]: vasen and *)
(* oikea are <<min, max>> or <<>> when the side has no numbers; stored     *)
(* tells how the ingestion wrote min and max: "array" is the one-element   *)
(* tuple of src/mml_addresses.py lines 93-96 and 105-108, "number" the     *)
(* plain int of src/geocoder/mml_addresses.py lines 62-63.  location is    *)
(* the line, a sequence of integer points joined by axis-parallel pieces.  *)

MaxNumber == 10

\* a fraction a/b in lowest terms, b > 0
Frac(a, b) ==
    LET s == IF b < 0 THEN -1 ELSE 1
        g == Gcd(Abs(a), Abs(b))
    IN  <<(s * a) \div g, (s * b) \div g>>

FracLE(f, g) == f[1] * g[2] <= g[1] * f[2]

\* Python 2's / on ints: the quotient rounded down
FractionFloorDivision(min, max, streetnumber) ==
    IF max = min THEN Frac(1, 2)
    ELSE Frac((streetnumber - min) \div (max - min), 1)

\* geocoder/app.py lines 678-682, app.py lines 236-240
Fraction(min, max, streetnumber) ==
    IF max = min THEN Frac(1, 2)
    ELSE Frac(streetnumber - min, max - min)

PieceLength(a, b) == Abs(b[1] - a[1]) + Abs(b[2] - a[2])

\* the length of the line up to its i-th point
LengthTo(line, i) ==
    SeqSum([k \in 1..(i - 1) |-> PieceLength(line[k], line[k + 1])])

Sign(n) == IF n > 0 THEN 1 ELSE IF n < 0 THEN -1 ELSE 0

\* LineString(line).interpolate(f, normalized=True) for 0 <= f <= 1: the
\* point at the share f of the line's length from its start
LineInterpolate(line, f) ==
    LET total == LengthTo(line, Len(line))
        \* the first piece that reaches the distance f * total
        i == CHOOSE k \in 1..(Len(line) - 1) :
                /\ f[1] * total <= LengthTo(line, k + 1) * f[2]
                /\ \A j \in 1..(k - 1) :
                      f[1] * total > LengthTo(line, j + 1) * f[2]
        a == line[i]
        b == line[i + 1]
        rest == f[1] * total - LengthTo(line, i) * f[2]
    IN  Pt(a[1] * f[2] + Sign(b[1] - a[1]) * rest,
           a[2] * f[2] + Sign(b[2] - a[2]) * rest,
           f[2])

\* str.lower() on the street names of the model
Lower(name) ==
    CASE name = "Mannerheimintie" -> "mannerheimintie"
      [] name = "Ei" -> "ei"
      [] OTHER -> name

\* geocoder/app.py lines 651-654, app.py lines 208-211
SideOf(streetnumber) == IF streetnumber % 2 = 0 THEN "vasen" ELSE "oikea"

SideRange(doc, side) == IF side = "vasen" THEN doc.vasen ELSE doc.oikea

\* the filter of the query (geocoder/app.py lines 656-667, app.py lines
\* 213-224) on one document: the term on nimi, which the store indexes in
\* lower case, and the two range conditions on the side's min and max
Matches(doc, self) ==
    /\ Lower(doc.nimi) = self.term
    /\ SideRange(doc, self.side) # <<>>
    /\ SideRange(doc, self.side)[1] <= self.streetnumber
    /\ self.streetnumber <= SideRange(doc, self.side)[2]

\* data["hits"]["hits"], as far as transform_es reads it: no hit, or the
\* first hit, which can be any matching document
SearchHits(self) ==
    IF \E d \in segments : Matches(d, self)
    THEN {<<d>> : d \in {d \in segments : Matches(d, self)}}
    ELSE {<<>>}

\* what a handler leaves behind: the status, the coordinates written (none,
\* or one point) and the locals of transform_es
Outcome(status, coordinates, hit, frac) ==
    [status |-> status, coordinates |-> coordinates, street |-> hit,
     fraction |-> frac]

\* lines 677-685 of geocoder/app.py and 235-241 of app.py, which differ only
\* in the shape of the coordinates they return.  Subscripting a plain int
\* raises TypeError, which tornado answers with 500.
InterpolateHit(self, hit) ==
    IF hit.stored # "array"
    THEN Outcome(500, <<>>, <<hit>>, <<>>)
    ELSE LET range == SideRange(hit, self.side)
             f == Fraction(range[1], range[2], self.streetnumber)
         IN  Outcome(200, <<LineInterpolate(hit.location, f)>>, <<hit>>, f)

\* src/geocoder/app.py lines 675-686
transform_es(self, hits) ==
    IF hits # <<>> THEN InterpolateHit(self, hits[1])
    ELSE Outcome(404, <<>>, <<>>, <<>>)

\* src/app.py lines 232-242
transform_es_legacy(self, hits) ==
    IF hits # <<>> THEN InterpolateHit(self, hits[1])
    ELSE Outcome(200, <<>>, <<>>, <<>>)

\* InterpolateHandler.get: geocoder/app.py lines 650-673 (the term is
\* streetname.lower()), app.py lines 207-230 (the term is streetname)
get(streetname, streetnumber) ==
    /\ handler.state = "new"
    /\ handler' = [state |-> "waiting",
                   streetnumber |-> streetnumber,
                   side |-> SideOf(streetnumber),
                   term |-> IF apiApp = "geocoder" THEN Lower(streetname)
                            ELSE streetname]
    /\ UNCHANGED <<apiApp, segments, usedHit, fraction, response>>
    /\ UNCHANGED <<ingestVars, csvVars, webVars, esVars, locatorVars, storeVars, osmVars>>

\* Handler.on_response: geocoder/app.py lines 56-66, app.py lines 47-60
on_response(error) ==
    /\ handler.state = "waiting"
    /\ \E hits \in SearchHits(handler) :
          LET out == IF error THEN Outcome(500, <<>>, <<>>, <<>>)
                     ELSE IF apiApp = "geocoder" THEN transform_es(handler, hits)
                     ELSE transform_es_legacy(handler, hits)
          IN  /\ response' = [status |-> out.status,
                              coordinates |-> out.coordinates,
                              storeError |-> error]
              /\ usedHit' = out.street
              /\ fraction' = out.fraction
    /\ handler' = [handler EXCEPT !.state = "done"]
    /\ UNCHANGED <<apiApp, segments>>
    /\ UNCHANGED <<ingestVars, csvVars, webVars, esVars, locatorVars, storeVars, osmVars>>

StraightLine == << <<0, 0>>, <<8, 0>> >>

BentLine == << <<0, 0>>, <<4, 0>>, <<4, 4>> >>

Ranges == {r \in (1..MaxNumber) \X (1..MaxNumber) : r[1] <= r[2]}

SegmentDocs ==
    {[nimi |-> "Mannerheimintie", stored |-> st,
      vasen |-> IF sides \in {"vasen", "both"} THEN r ELSE <<>>,
      oikea |-> IF sides \in {"oikea", "both"} THEN r ELSE <<>>,
      location |-> BentLine] :
        st \in {"array", "number"}, r \in Ranges,
        sides \in {"vasen", "oikea", "both"}}

OtherSegment ==
    [nimi |-> "Mannerheimintie", stored |-> "array",
     vasen |-> <<2, 10>>, oikea |-> <<1, 9>>, location |-> StraightLine]

RequestNames == {"Mannerheimintie", "mannerheimintie", "Ei"}

InitApi ==
    /\ apiApp \in {"geocoder", "legacy"}
    /\ segments \in {{}} \cup {{d} : d \in SegmentDocs}
                        \cup {{d, OtherSegment} : d \in SegmentDocs}
    /\ handler = [state |-> "new"]
    /\ usedHit = <<>>
    /\ fraction = <<>>
    /\ response = <<>>
    /\ InitWebOff
    /\ InitLocator(StandardBoundaryFile)
    /\ addresses = {}
    /\ submitted = <<>>
    /\ InitOsmOff

NextApi ==
    \/ \E streetname \in RequestNames, streetnumber \in 1..MaxNumber :
          get(streetname, streetnumber)
    \/ \E error \in BOOLEAN : on_response(error)

SpecApi == InitApi /\ [][NextApi]_vars

\* C7: for the side range [min, max] of the matched segment the fraction is
\* 1/2 when min = max, 0 at min, 1 at max, 1/2 at the midpoint (6 in [2, 10]),
\* and does not decrease when the requested number grows within the range.
C7_FractionLinear ==
    fraction # <<>> =>
        LET range == SideRange(usedHit[1], handler.side)
            min == range[1]
            max == range[2]
            n == handler.streetnumber
        IN  /\ min = max => fraction = <<1, 2>>
            /\ (min < max /\ n = min) => fraction = <<0, 1>>
            /\ (min < max /\ n = max) => fraction = <<1, 1>>
            /\ (min < max /\ 2 * n = min + max) => fraction = <<1, 2>>
            /\ (range = <<2, 10>> /\ n = 6) => fraction = <<1, 2>>
            /\ FracLE(<<0, 1>>, fraction) /\ FracLE(fraction, <<1, 1>>)
            /\ \A m \in min..max :
                  /\ m <= n => FracLE(Fraction(min, max, m), fraction)
                  /\ m >= n => FracLE(fraction, Fraction(min, max, m))

\* number 6 asked of a segment with the range [2, 10]: the answer is the
\* middle of the line
C7_Witness ==
    /\ fraction = <<1, 2>>
    /\ handler.streetnumber = 6
    /\ SideRange(usedHit[1], handler.side) = <<2, 10>>
    /\ response.status = 200
    /\ response.coordinates = <<IntPt(4, 0)>>

\* C8: a query that no stored segment matches is answered 404: never with a
\* coordinate, never with an empty successful response.
C8_NoMatchIsNotFound ==
    ( /\ handler.state = "done"
      /\ ~response.storeError
      /\ \A d \in segments : ~Matches(d, handler) )
    => /\ response.status = 404
       /\ response.coordinates = <<>>

-----------------------------------------------------------------------------
(* The OpenStreetMap import: src/osm_pbf.py.                               *)
(*                                                                         *)
(* The pbf file is a set of blocks; the parser decodes the blocks in       *)
(* parallel and calls the callback of a block's kind with the block's      *)
(* elements, in no fixed order of the blocks.  Tag maps are functions      *)
(* from tag keys to strings.  The slot for the associated street of a      *)
(* cached node or way is <<>> for Python's None and <<r>> for relation r.  *)

BULK_SIZE == 256

AddrKeys ==
    {"addr:housenumber", "addr:street", "addr:unit", "addr:staircase",
     "addr:city"}

\* t.startswith('addr:') for the tag keys of the model
StartsWithAddr(t) == t \in AddrKeys

HasAddrTag(tags) == \E t \in DOMAIN tags : StartsWithAddr(t)

Has(tags, key) == key \in DOMAIN tags

NoStreet == <<>>

\* es.bulk of line 57 answers, raises ElasticHttpError, or raises something
\* else, such as the ProtocolError of a lost connection
EsOutcomes == {"ok", "ElasticHttpError", "ProtocolError"}

EsOutcome(n) == IF n \in DOMAIN esPlan THEN esPlan[n] ELSE "ok"

\* send_bulk (lines 54-61): the requests made after it.  logged: the except
\* clause of line 58 ran; raised: the exception left send_bulk
send_bulk(log, ops, doctype) ==
    LET outcome == EsOutcome(Len(log) + 1)
    IN  Append(log, [doctype |-> doctype, operations |-> ops,
                     outcome |-> outcome,
                     logged |-> outcome = "ElasticHttpError",
                     raised |-> outcome \notin {"ok", "ElasticHttpError"}])

\* the last send_bulk call raised
Raised(log) == log # <<>> /\ log[Len(log)].raised

\* lines 68-69
RECURSIVE CoordsAfter(_, _)
CoordsAfter(cache, new_coords) ==
    IF new_coords = <<>> THEN cache
    ELSE CoordsAfter(Put(cache, Head(new_coords)[1],
                         IntPt(Head(new_coords)[2], Head(new_coords)[3])),
                     Tail(new_coords))

\* coords_callback, lines 64-69
coords_callback(block) ==
    /\ pc = "parse"
    /\ block.kind = "coords"
    /\ coords' = CoordsAfter(coords, block.elems)
    /\ pending' = pending \ {block}
    /\ UNCHANGED <<osmFile, nodes, ways, relations, pc, todo, operations, sent,
                   linkOrder, origins, visited>>
    /\ UNCHANGED <<ingestVars, csvVars, webVars, esVars, locatorVars, storeVars, apiVars, threadVars>>

\* line 84: the node is not worth a POI document
NodeIsDull(tags) ==
    \/ Has(tags, "created_by") /\ Cardinality(DOMAIN tags) <= 3
    \/ Cardinality(DOMAIN tags) <= 2

\* lines 74-94 over the elements of one call; st = [nodes, operations, sent].
\* Line 90 writes 'location' into the very dict that line 81 put in the cache.
RECURSIVE NodesAfter(_, _)
NodesAfter(st, new_nodes) ==
    IF new_nodes = <<>> \/ Raised(st.sent) THEN st
    ELSE LET osm_id == Head(new_nodes)[1]
             tags == Head(new_nodes)[2]
             lonlat == Head(new_nodes)[3]
             skipped == Has(tags, "animal_spotting")
             poi == ~skipped /\ ~NodeIsDull(tags)
             kept == IF poi THEN Put(tags, "location", lonlat) ELSE tags
             cache == IF ~skipped /\ HasAddrTag(tags)
                      THEN Put(st.nodes, osm_id, <<kept, lonlat, NoStreet>>)
                      ELSE st.nodes
             ops == IF poi THEN Append(st.operations, kept) ELSE st.operations
             full == poi /\ Len(ops) >= BULK_SIZE
         IN  NodesAfter([nodes |-> cache,
                         operations |-> IF full THEN <<>> ELSE ops,
                         sent |-> IF full THEN send_bulk(st.sent, ops, "poi")
                                  ELSE st.sent],
                        Tail(new_nodes))

\* nodes_callback, lines 72-96
nodes_callback(block) ==
    /\ pc = "parse"
    /\ block.kind = "nodes"
    /\ LET st == NodesAfter([nodes |-> nodes, operations |-> <<>>, sent |-> sent],
                            block.elems)
       IN  /\ nodes' = st.nodes
           /\ sent' = IF st.operations # <<>> /\ ~Raised(st.sent)
                      THEN send_bulk(st.sent, st.operations, "poi")
                      ELSE st.sent
    /\ pc' = IF Raised(sent') THEN "crashed" ELSE pc
    /\ pending' = pending \ {block}
    /\ UNCHANGED <<osmFile, coords, ways, relations, todo, operations,
                   linkOrder, origins, visited>>
    /\ UNCHANGED <<ingestVars, csvVars, webVars, esVars, locatorVars, storeVars, apiVars, threadVars>>

\* lines 100-109 without the test of line 106
RECURSIVE RelationsAfterNameless(_, _)
RelationsAfterNameless(cache, new_relations) ==
    IF new_relations = <<>> THEN cache
    ELSE LET tags == Head(new_relations)[2]
             useful == /\ Has(tags, "type")
                       /\ tags["type"] \in {"street", "associatedStreet"}
         IN  RelationsAfterNameless(
                 IF useful THEN Put(cache, Head(new_relations)[1],
                                    <<tags, Head(new_relations)[3]>>)
                 ELSE cache,
                 Tail(new_relations))

\* lines 100-109
RECURSIVE RelationsAfter(_, _)
RelationsAfter(cache, new_relations) ==
    IF new_relations = <<>> THEN cache
    ELSE LET osm_id == Head(new_relations)[1]
             tags == Head(new_relations)[2]
             targets == Head(new_relations)[3]
             useful == /\ Has(tags, "type")
                       /\ tags["type"] \in {"street", "associatedStreet"}
                       /\ Has(tags, "name")
         IN  RelationsAfter(IF useful THEN Put(cache, osm_id, <<tags, targets>>)
                            ELSE cache,
                            Tail(new_relations))

\* relations_callback, lines 99-109
relations_callback(block) ==
    /\ pc = "parse"
    /\ block.kind = "relations"
    /\ relations' = RelationsAfter(relations, block.elems)
    /\ pending' = pending \ {block}
    /\ UNCHANGED <<osmFile, coords, nodes, ways, pc, todo, operations, sent,
                   linkOrder, origins, visited>>
    /\ UNCHANGED <<ingestVars, csvVars, webVars, esVars, locatorVars, storeVars, apiVars, threadVars>>

\* lines 113-117 without the test of line 115
RECURSIVE WaysAfterUntested(_, _)
WaysAfterUntested(cache, new_ways) ==
    IF new_ways = <<>> THEN cache
    ELSE WaysAfterUntested(Put(cache, Head(new_ways)[1],
                               <<Head(new_ways)[2], Head(new_ways)[3], NoStreet>>),
                           Tail(new_ways))

\* lines 113-117
RECURSIVE WaysAfter(_, _)
WaysAfter(cache, new_ways) ==
    IF new_ways = <<>> THEN cache
    ELSE LET osm_id == Head(new_ways)[1]
             tags == Head(new_ways)[2]
             refs == Head(new_ways)[3]
         IN  WaysAfter(IF HasAddrTag(tags)
                       THEN Put(cache, osm_id, <<tags, refs, NoStreet>>)
                       ELSE cache,
                       Tail(new_ways))

\* ways_callback, lines 112-117
ways_callback(block) ==
    /\ pc = "parse"
    /\ block.kind = "ways"
    /\ ways' = WaysAfter(ways, block.elems)
    /\ pending' = pending \ {block}
    /\ UNCHANGED <<osmFile, coords, nodes, relations, pc, todo, operations,
                   sent, linkOrder, origins, visited>>
    /\ UNCHANGED <<ingestVars, csvVars, webVars, esVars, locatorVars, storeVars, apiVars, threadVars>>

\* OSMParser.parse returning although blocks are still to be delivered
ParserReturnsEarly ==
    /\ pc = "parse"
    /\ pc' = "link"
    /\ todo' = DOMAIN relations
    /\ UNCHANGED <<osmFile, pending, cacheVars, operations, sent, linkOrder,
                   origins, visited>>
    /\ UNCHANGED <<ingestVars, csvVars, webVars, esVars, locatorVars, storeVars, apiVars, threadVars>>

\* lines 183-190: OSMParser(...).parse returns when every block has been
\* through its callback; the loop over relations.items() starts
ParserReturns ==
    /\ pc = "parse"
    /\ pending = {}
    /\ \A k \in Kinds : active[k] = {}
    /\ pc' = "link"
    /\ todo' = DOMAIN relations
    /\ UNCHANGED <<osmFile, pending, cacheVars, operations, sent, linkOrder,
                   origins, visited>>
    /\ UNCHANGED <<ingestVars, csvVars, webVars, esVars, locatorVars, storeVars, apiVars, threadVars>>

-----------------------------------------------------------------------------
(* Linking: lines 190-205 *)

SetStreet(entry, r_id) == <<entry[1], entry[2], <<r_id>> >>

\* lines 196-205 for one member, overwriting an association already made
LinkOneLastWins(c, r_id, id, type) ==
    IF type = "way" /\ id \in DOMAIN c.ways
    THEN [c EXCEPT !.ways = Put(@, id, SetStreet(@[id], r_id))]
    ELSE IF type = "node" /\ id \in DOMAIN c.nodes
         THEN [c EXCEPT !.nodes = Put(@, id, SetStreet(@[id], r_id))]
         ELSE c

\* lines 196-205 for one member; c = [ways, nodes]
LinkOne(c, r_id, id, type) ==
    IF type = "way" /\ id \in DOMAIN c.ways
    THEN IF c.ways[id][3] # NoStreet THEN c
         ELSE [c EXCEPT !.ways = Put(@, id, SetStreet(@[id], r_id))]
    ELSE IF type = "node" /\ id \in DOMAIN c.nodes
         THEN IF c.nodes[id][3] # NoStreet THEN c
              ELSE [c EXCEPT !.nodes = Put(@, id, SetStreet(@[id], r_id))]
         ELSE c

\* line 195: the members of one relation, in their order
RECURSIVE LinkMembers(_, _, _)
LinkMembers(c, r_id, targets) ==
    IF targets = <<>> THEN c
    ELSE LinkMembers(LinkOne(c, r_id, Head(targets)[1], Head(targets)[2]),
                     r_id, Tail(targets))

\* one turn of the loop of line 190; relations.items() gives the relations
\* in an order the program does not choose
link_relation(r_id) ==
    /\ pc = "link"
    /\ r_id \in todo
    /\ LET c == LinkMembers([ways |-> ways, nodes |-> nodes], r_id,
                            relations[r_id][2])
       IN  /\ ways' = c.ways
           /\ nodes' = c.nodes
    /\ todo' = todo \ {r_id}
    /\ linkOrder' = Append(linkOrder, r_id)
    /\ UNCHANGED <<osmFile, pending, coords, relations, pc, operations, sent,
                   origins, visited>>
    /\ UNCHANGED <<ingestVars, csvVars, webVars, esVars, locatorVars, storeVars, apiVars, threadVars>>

\* the loop of line 190 ends, the loop of line 207 starts
LinkingDone ==
    /\ pc = "link"
    /\ todo = {}
    /\ pc' = "nodes"
    /\ todo' = DOMAIN nodes
    /\ UNCHANGED <<osmFile, pending, cacheVars, operations, sent, linkOrder,
                   origins, visited>>
    /\ UNCHANGED <<ingestVars, csvVars, webVars, esVars, locatorVars, storeVars, apiVars, threadVars>>

-----------------------------------------------------------------------------
(* Address assembly: lines 146-156 and 207-267 *)

\* get_unit, lines 146-156
get_unit(tags) ==
    LET main == Has(tags, "entrance") /\ tags["entrance"] = "main"
    IN  IF Has(tags, "addr:unit") THEN <<tags["addr:unit"], main>>
        ELSE IF Has(tags, "addr:staircase") THEN <<tags["addr:staircase"], main>>
        ELSE <<None, FALSE>>

\* `if n[2]` (lines 211, 221): the slot holds a relation id other than 0
HasStreetRelation(entry) == entry[3] # NoStreet /\ entry[3][1] # 0

\* lines 209-214 and 219-229: the street of a node or way, <<>> when it
\* has none
StreetOf(entry) ==
    IF Has(entry[1], "addr:street") THEN <<entry[1]["addr:street"]>>
    ELSE IF HasStreetRelation(entry)
         THEN <<relations[entry[3][1]][1]["name"]>>
         ELSE <<>>

\* one add_address call: its arguments and, for the history, who makes it
Call(street, number, location, unit, main, origin) ==
    [street |-> street, number |-> number, location |-> location,
     unit |-> unit, main |-> main, origin |-> origin]

\* the calls in their order, from the states sts: the states they can end in
RECURSIVE SubmitAll(_, _)
SubmitAll(sts, calls) ==
    IF calls = <<>> THEN sts
    ELSE SubmitAll(UNION {add_address(st, Head(calls).street, Head(calls).number,
                                      Head(calls).location, Head(calls).unit,
                                      Head(calls).main, None) : st \in sts},
                   Tail(calls))

\* lines 208-215: the call the loop makes for node id, if any
NodeCalls(id) ==
    LET n == nodes[id]
    IN  IF Has(n[1], "addr:housenumber") /\ StreetOf(n) # <<>>
        THEN <<Call(StreetOf(n)[1], n[1]["addr:housenumber"], n[2],
                    get_unit(n[1])[1], get_unit(n[1])[2], <<"node", id>>)>>
        ELSE <<>>

\* one turn of the loop of line 207; nodes.values() gives the nodes in an
\* order the program does not choose
assemble_node(id) ==
    /\ pc = "nodes"
    /\ id \in todo
    /\ \E st \in SubmitAll({StoreState}, NodeCalls(id)) :
          /\ addresses' = st.addresses
          /\ submitted' = st.submitted
    /\ origins' = origins \o [i \in DOMAIN NodeCalls(id) |-> NodeCalls(id)[i].origin]
    /\ todo' = todo \ {id}
    /\ visited' = visited \cup {<<"node", id>>}
    /\ UNCHANGED <<osmFile, pending, cacheVars, pc, operations, sent, linkOrder>>
    /\ UNCHANGED <<ingestVars, csvVars, webVars, esVars, locatorVars, apiVars, threadVars>>

\* the loop of line 207 ends, the loop of line 217 starts
NodesDone ==
    /\ pc = "nodes"
    /\ todo = {}
    /\ pc' = "ways"
    /\ todo' = DOMAIN ways
    /\ UNCHANGED <<osmFile, pending, cacheVars, operations, sent, linkOrder,
                   origins, visited>>
    /\ UNCHANGED <<ingestVars, csvVars, webVars, esVars, locatorVars, storeVars, apiVars, threadVars>>

\* `if not unit` (line 237)
Falsy(value) == value = None \/ value = ""

\* lines 233-242 with a break after the first entrance
RECURSIVE EntranceCallsFirstOnly(_, _, _, _)
EntranceCallsFirstOnly(id, street, number, refs) ==
    IF refs = <<>> THEN <<>>
    ELSE LET node_id == Head(refs)
         IN  IF node_id \in DOMAIN nodes /\ ~Falsy(get_unit(nodes[node_id][1])[1])
             THEN <<Call(street, number, nodes[node_id][2],
                         get_unit(nodes[node_id][1])[1],
                         get_unit(nodes[node_id][1])[2],
                         <<"way", id, "entrance", node_id>>)>>
             ELSE EntranceCallsFirstOnly(id, street, number, Tail(refs))

\* lines 233-242: one call for each member node with a unit, in the order
\* of the way's node list
RECURSIVE EntranceCalls(_, _, _, _)
EntranceCalls(id, street, number, refs) ==
    IF refs = <<>> THEN <<>>
    ELSE LET node_id == Head(refs)
             rest == EntranceCalls(id, street, number, Tail(refs))
         IN  IF node_id \in DOMAIN nodes /\ ~Falsy(get_unit(nodes[node_id][1])[1])
             THEN <<Call(street, number, nodes[node_id][2],
                         get_unit(nodes[node_id][1])[1],
                         get_unit(nodes[node_id][1])[2],
                         <<"way", id, "entrance", node_id>>)>> \o rest
             ELSE rest

\* lines 259-263 stopping at the first house node
RECURSIVE HouseNodeCallsFirstOnly(_, _, _)
HouseNodeCallsFirstOnly(id, street, refs) ==
    IF refs = <<>> THEN <<>>
    ELSE LET node_id == Head(refs)
         IN  IF node_id \in DOMAIN nodes /\ Has(nodes[node_id][1], "addr:housenumber")
             THEN <<Call(street, nodes[node_id][1]["addr:housenumber"],
                         nodes[node_id][2], None, FALSE,
                         <<"way", id, "member", node_id>>)>>
             ELSE HouseNodeCallsFirstOnly(id, street, Tail(refs))

\* lines 259-263: one call for each member node with a house number
RECURSIVE HouseNodeCalls(_, _, _)
HouseNodeCalls(id, street, refs) ==
    IF refs = <<>> THEN <<>>
    ELSE LET node_id == Head(refs)
             rest == HouseNodeCalls(id, street, Tail(refs))
         IN  IF node_id \in DOMAIN nodes /\ Has(nodes[node_id][1], "addr:housenumber")
             THEN <<Call(street, nodes[node_id][1]["addr:housenumber"],
                         nodes[node_id][2], None, FALSE,
                         <<"way", id, "member", node_id>>)>> \o rest
             ELSE rest

\* map(lambda x: coords[x], w[1]) with the points back as integer pairs
RingOf(refs) == [i \in DOMAIN refs |-> <<coords[refs[i]][1], coords[refs[i]][2]>>]

\* lines 218-267 for way id: the calls it makes, and whether line 256 raises
\* KeyError because a member has no coordinates
WayCalls(id) ==
    LET w == ways[id]
        none == [calls |-> <<>>, raised |-> FALSE]
    IN  IF Has(w[1], "addr:housenumber")
        THEN IF StreetOf(w) = <<>> THEN none
             ELSE LET entrances ==
                          EntranceCalls(id, StreetOf(w)[1],
                                        w[1]["addr:housenumber"], w[2])
                  IN  IF entrances # <<>>
                      THEN [calls |-> entrances, raised |-> FALSE]
                      ELSE IF Len(w[2]) < 3 THEN none
                      ELSE IF \E i \in DOMAIN w[2] : w[2][i] \notin DOMAIN coords
                           THEN [calls |-> <<>>, raised |-> TRUE]
                           ELSE [calls |->
                                    <<Call(StreetOf(w)[1], w[1]["addr:housenumber"],
                                           Centroid(RingOf(w[2])), None, FALSE,
                                           <<"way", id, "centroid">>)>>,
                                 raised |-> FALSE]
        ELSE IF Has(w[1], "addr:street")
             THEN [calls |-> HouseNodeCalls(id, w[1]["addr:street"], w[2]),
                   raised |-> FALSE]
             ELSE none

\* one turn of the loop of line 217; ways.items() gives the ways in an order
\* the program does not choose.  An uncaught KeyError ends the run.
assemble_way(id) ==
    /\ pc = "ways"
    /\ id \in todo
    /\ \E st \in SubmitAll({StoreState}, WayCalls(id).calls) :
          /\ addresses' = st.addresses
          /\ submitted' = st.submitted
    /\ origins' = origins \o
            [i \in DOMAIN WayCalls(id).calls |-> WayCalls(id).calls[i].origin]
    /\ pc' = IF WayCalls(id).raised THEN "crashed" ELSE pc
    /\ todo' = todo \ {id}
    /\ visited' = visited \cup {<<"way", id>>}
    /\ UNCHANGED <<osmFile, pending, cacheVars, operations, sent, linkOrder>>
    /\ UNCHANGED <<ingestVars, csvVars, webVars, esVars, locatorVars, apiVars, threadVars>>

\* the loop of line 217 ends, the loop of line 270 starts
WaysDone ==
    /\ pc = "ways"
    /\ todo = {}
    /\ pc' = "emit"
    /\ todo' = addresses
    /\ UNCHANGED <<osmFile, pending, cacheVars, operations, sent, linkOrder,
                   origins, visited>>
    /\ UNCHANGED <<ingestVars, csvVars, webVars, esVars, locatorVars, storeVars, apiVars, threadVars>>

-----------------------------------------------------------------------------
(* Emission: lines 269-280 *)

\* lines 271-275
AddressDocument(item) ==
    [municipality |-> item[1][1], street |-> item[1][2], number |-> item[1][3],
     unit |-> item[1][4], location |-> item[2]]

\* line 276 with > for >=
emit_address_late(item) ==
    /\ pc = "emit"
    /\ item \in todo
    /\ LET ops == Append(operations, AddressDocument(item))
       IN  IF Len(ops) > BULK_SIZE
           THEN /\ sent' = send_bulk(sent, ops, "osm_address")
                /\ operations' = <<>>
           ELSE /\ sent' = sent
                /\ operations' = ops
    /\ pc' = IF Raised(sent') THEN "crashed" ELSE pc
    /\ todo' = todo \ {item}
    /\ UNCHANGED <<osmFile, pending, cacheVars, linkOrder, origins, visited>>
    /\ UNCHANGED <<ingestVars, csvVars, webVars, esVars, locatorVars, storeVars, apiVars, threadVars>>

\* one turn of the loop of line 270; addresses.items() gives the records in
\* an order the program does not choose
emit_address(item) ==
    /\ pc = "emit"
    /\ item \in todo
    /\ LET ops == Append(operations, AddressDocument(item))
       IN  IF Len(ops) >= BULK_SIZE
           THEN /\ sent' = send_bulk(sent, ops, "osm_address")
                /\ operations' = <<>>
           ELSE /\ sent' = sent
                /\ operations' = ops
    /\ pc' = IF Raised(sent') THEN "crashed" ELSE pc
    /\ todo' = todo \ {item}
    /\ UNCHANGED <<osmFile, pending, cacheVars, linkOrder, origins, visited>>
    /\ UNCHANGED <<ingestVars, csvVars, webVars, esVars, locatorVars, storeVars, apiVars, threadVars>>

\* lines 279-280: the rest is sent and main() returns
EmitRest ==
    /\ pc = "emit"
    /\ todo = {}
    /\ sent' = IF operations # <<>>
               THEN send_bulk(sent, operations, "osm_address")
               ELSE sent
    /\ operations' = <<>>
    /\ pc' = IF Raised(sent') THEN "crashed" ELSE "done"
    /\ UNCHANGED <<osmFile, pending, cacheVars, todo, linkOrder, origins, visited>>
    /\ UNCHANGED <<ingestVars, csvVars, webVars, esVars, locatorVars, storeVars, apiVars, threadVars>>

-----------------------------------------------------------------------------
(* Runs of the import: main() over the files of a small family.            *)
(* Nodes n1..n4 lie on the corners (0,0), (0,2), (2,2), (2,0) of a square  *)
(* that reaches into Helsinki; a way and a node may carry the same id.     *)

NodePlaces == <<IntPt(0, 0), IntPt(0, 2), IntPt(2, 2), IntPt(2, 0)>>

CoordsBlock ==
    [kind |-> "coords",
     elems |-> [i \in DOMAIN NodePlaces |-> <<i, NodePlaces[i][1], NodePlaces[i][2]>>]]

House == ("addr:housenumber" :> "5") @@ ("addr:street" :> "Testroad")

HouseMain == House @@ ("entrance" :> "main")

HouseUnit == House @@ ("addr:unit" :> "A")

HouseUnitMain == HouseUnit @@ ("entrance" :> "main")

HouseNumber == ("addr:housenumber" :> "5")

Door == ("addr:unit" :> "A") @@ ("entrance" :> "main")

Spotted == HouseNumber @@ ("animal_spotting" :> "yes")

Edited == ("created_by" :> "JOSM") @@ ("addr:housenumber" :> "7")
              @@ ("addr:street" :> "Sivukuja")

Kiosk == ("name" :> "Kioski") @@ ("amenity" :> "kiosk") @@ ("shop" :> "kiosk")

NodeTagChoices ==
    {House, HouseMain, HouseUnit, HouseUnitMain, HouseNumber, Door, Spotted,
     Edited, Kiosk}

WayTagChoices ==
    {House, HouseNumber, ("addr:street" :> "Testroad"),
     ("addr:city" :> "Helsinki"), ("highway" :> "residential")}

\* an open ring, a closed ring, a triangle, two nodes only, and two rings
\* with a node the file has no coordinates for
WayRefChoices ==
    {<<1, 2, 3, 4>>, <<1, 2, 3, 4, 1>>, <<1, 2, 3>>, <<1, 2>>, <<1, 2, 3, 9>>,
     <<1, 2, 9>>}

RelationTagChoices ==
    {("type" :> "associatedStreet") @@ ("name" :> "Testroad"),
     ("type" :> "street") @@ ("name" :> "Sivukuja"),
     ("type" :> "route") @@ ("name" :> "Testroad"),
     ("type" :> "associatedStreet")}

RelationTargetChoices ==
    {<< <<1, "way", "house">> >>,
     << <<1, "node", "house">> >>,
     << <<1, "node", "house">>, <<1, "way", "house">> >>,
     << <<3, "node", "house">> >>,
     << <<3, "way", "street">>, <<1, "way", "house">> >>}

\* the blocks of a file with the tagged nodes ns (id -> tags), the ways ws
\* (id -> <<tags, refs>>) and the relations rs (id -> <<tags, targets>>),
\* every relation in a block of its own
SetToSeq(S) == CHOOSE q \in [1..Cardinality(S) -> S] : \A e \in S : \E i \in DOMAIN q : q[i] = e

OsmFile(ns, ws, rs) ==
    {CoordsBlock}
    \cup (IF DOMAIN ns = {} THEN {}
          ELSE {[kind |-> "nodes",
                 elems |-> [i \in 1..Cardinality(DOMAIN ns) |->
                              LET id == SetToSeq(DOMAIN ns)[i]
                              IN  <<id, ns[id], NodePlaces[id]>>]]})
    \cup (IF DOMAIN ws = {} THEN {}
          ELSE {[kind |-> "ways",
                 elems |-> [i \in 1..Cardinality(DOMAIN ws) |->
                              LET id == SetToSeq(DOMAIN ws)[i]
                              IN  <<id, ws[id][1], ws[id][2]>>]]})
    \cup {[kind |-> "relations", elems |-> <<<<id, rs[id][1], rs[id][2]>>>>] :
            id \in DOMAIN rs}

Maps(ids, values) == UNION {[D -> values] : D \in SUBSET ids}

\* files of nodes only
NodeFiles ==
    {OsmFile(ns, EmptyDict, EmptyDict) : ns \in Maps({1, 2, 3}, NodeTagChoices)}

\* files of one way around some of the nodes n1, n2 and n3 and at most the
\* relation 1 that names the way
WayFiles ==
    {OsmFile(ns, 1 :> <<wt, wr>>, rs) :
        ns \in Maps({1, 2, 3}, {House, HouseMain, HouseNumber, HouseUnit, Door, Spotted}),
        wt \in WayTagChoices \ {("highway" :> "residential")},
        wr \in {<<1, 2, 3, 4>>, <<1, 2, 3, 4, 1>>, <<1, 2, 3>>},
        rs \in {EmptyDict,
                1 :> <<("type" :> "associatedStreet") @@ ("name" :> "Sivukuja"),
                       << <<1, "way", "house">> >> >>}}

\* files of two ways
TwoWayFiles ==
    {OsmFile(EmptyDict, (1 :> <<wt1, wr1>>) @@ (2 :> <<wt2, wr2>>), EmptyDict) :
        wt1 \in WayTagChoices, wt2 \in WayTagChoices,
        wr1 \in WayRefChoices, wr2 \in WayRefChoices}

\* files of up to two relations over the node n1 and the ways 1 and 3, none
\* of which has a street of its own
RelationFiles ==
    {OsmFile(1 :> HouseNumber,
             (1 :> <<HouseNumber, <<1, 2, 3, 4>> >>)
                @@ (3 :> <<HouseNumber, <<2, 3, 4>> >>),
             rs) :
        rs \in Maps({1, 2}, RelationTagChoices \X RelationTargetChoices)}

OsmFiles == NodeFiles \cup WayFiles \cup TwoWayFiles \cup RelationFiles

InitImport ==
    /\ InitLocator(StandardBoundaryFile)
    /\ addresses = {}
    /\ submitted = <<>>
    /\ InitApiOff
    /\ osmFile \in OsmFiles
    /\ pending = osmFile
    /\ pc = "parse"
    /\ InitCaches
    /\ InitEsUp

NextImport ==
    \/ \E block \in pending : coords_callback(block)
    \/ \E block \in pending : nodes_callback(block)
    \/ \E block \in pending : relations_callback(block)
    \/ \E block \in pending : ways_callback(block)
    \/ ParserReturns
    \/ \E r_id \in todo : link_relation(r_id)
    \/ LinkingDone
    \/ \E id \in todo : assemble_node(id)
    \/ NodesDone
    \/ \E id \in todo : assemble_way(id)
    \/ WaysDone
    \/ \E item \in todo : emit_address(item)
    \/ EmitRest

SpecImport == InitImport /\ [][NextImport]_vars

-----------------------------------------------------------------------------
(* Properties of the import *)

Range(q) == {q[i] : i \in DOMAIN q}

\* the node elements of the file, cached or not
FileNodes == UNION {Range(b.elems) : b \in {c \in osmFile : c.kind = "nodes"}}

\* the first call made for the key of call k
FirstFor(k) ==
    SetMin({j \in DOMAIN submitted : submitted[j].address = submitted[k].address})

IsMainEntrance(tags) == Has(tags, "entrance") /\ tags["entrance"] = "main"

\* C3: when the run is over, for cached nodes A (no entrance tag) and B
\* (entrance=main) whose calls gave the same key, and no other call gave
\* that key, the stored location of the key is B's, whichever was first.
C3_MainNodeWins ==
    pc = "done" =>
        \A a, b \in DOMAIN nodes : \A i, j \in DOMAIN origins :
            ( /\ a # b
              /\ ~Has(nodes[a][1], "entrance")
              /\ IsMainEntrance(nodes[b][1])
              /\ origins[i] = <<"node", a>>
              /\ origins[j] = <<"node", b>>
              /\ submitted[i].address = submitted[j].address
              /\ \A k \in DOMAIN submitted \ {i, j} :
                    submitted[k].address # submitted[i].address )
            => DictGet(addresses, submitted[j].address) = nodes[b][2]

StreetOnlyWay(w) ==
    /\ Has(ways[w][1], "addr:street")
    /\ ~Has(ways[w][1], "addr:housenumber")

HouseNodeWithoutStreet(tags) ==
    /\ Has(tags, "addr:housenumber")
    /\ ~Has(tags, "addr:street")

\* C4 as stated: when the run is over, for every cached way with a street
\* tag S and no house number, and every member node of the file with a house
\* number N and no street tag, the store holds a record with street S and
\* number N at that node's location.
C4_HouseNodeRecordAtNode ==
    pc = "done" =>
        \A w \in DOMAIN ways : \A n \in FileNodes :
            ( /\ StreetOnlyWay(w)
              /\ n[1] \in Range(ways[w][2])
              /\ HouseNodeWithoutStreet(n[2]) )
            => \E e \in addresses :
                  /\ e[1][2] = ways[w][1]["addr:street"]
                  /\ e[1][3] = n[2]["addr:housenumber"]
                  /\ e[2] = n[3]

\* C4: when the run is over, every cached way with a street tag S and no
\* house number has made, for every cached member node with a house number
\* N and no street tag, one call (S, N, the node's location, no unit, not
\* main); the store holds the key of that call, (municipality of the node's
\* location, S, N, no unit), with the location of the first call made for
\* the key, which is the node's location when the call is that first one.
C4_HouseNodeSubmitted ==
    pc = "done" =>
        \A w \in DOMAIN ways : \A n \in DOMAIN nodes :
            ( /\ StreetOnlyWay(w)
              /\ n \in Range(ways[w][2])
              /\ HouseNodeWithoutStreet(nodes[n][1]) )
            => \E k \in DOMAIN origins :
                  /\ origins[k] = <<"way", w, "member", n>>
                  /\ submitted[k].street = ways[w][1]["addr:street"]
                  /\ submitted[k].number = nodes[n][1]["addr:housenumber"]
                  /\ submitted[k].location = nodes[n][2]
                  /\ submitted[k].unit = None
                  /\ ~submitted[k].main
                  /\ submitted[k].address[1] \in LookupMunicipality(nodes[n][2])
                  /\ submitted[k].address[2] = submitted[k].street
                  /\ submitted[k].address[3] = submitted[k].number
                  /\ submitted[k].address[4] = None
                  /\ DictHas(addresses, submitted[k].address)
                  /\ DictGet(addresses, submitted[k].address)
                        = submitted[FirstFor(k)].location

\* a street-only way around two house nodes of one municipality and one
\* number: both are submitted, the record has the place of the first
C4_Witness ==
    /\ pc = "done"
    /\ \E w \in DOMAIN ways : \E i, j \in DOMAIN origins :
          /\ StreetOnlyWay(w)
          /\ i < j
          /\ origins[i][1] = "way" /\ origins[i][2] = w
          /\ origins[j][1] = "way" /\ origins[j][2] = w
          /\ submitted[i].address = submitted[j].address
          /\ submitted[i].location # submitted[j].location
          /\ FirstFor(j) = i
          /\ DictGet(addresses, submitted[j].address) = submitted[i].location

\* a way of C5: a house number, a street of its own or of its relation, three
\* or more member nodes with coordinates, none of them tagged as an entrance
\* or a unit
BuildingWay(w) ==
    /\ Has(ways[w][1], "addr:housenumber")
    /\ StreetOf(ways[w]) # <<>>
    /\ Len(ways[w][2]) >= 3
    /\ Range(ways[w][2]) \subseteq DOMAIN coords
    /\ \A n \in FileNodes :
          n[1] \in Range(ways[w][2])
          => DOMAIN n[2] \cap {"addr:unit", "addr:staircase", "entrance"} = {}

CallsOfWay(w) == {k \in DOMAIN origins : origins[k][1] = "way" /\ origins[k][2] = w}

\* C5 as stated: when the run is over, every such way has given exactly one
\* record, with no unit, at the centroid of its polygon.
C5_RecordAtCentroid ==
    pc = "done" =>
        \A w \in DOMAIN ways :
            BuildingWay(w)
            => /\ Cardinality(CallsOfWay(w)) = 1
               /\ \E e \in addresses :
                     /\ e[1][2] = StreetOf(ways[w])[1]
                     /\ e[1][3] = ways[w][1]["addr:housenumber"]
                     /\ e[1][4] = None
                     /\ e[2] = Centroid(RingOf(ways[w][2]))

SquareRings ==
    {<<<<0, 0>>, <<0, 2>>, <<2, 2>>, <<2, 0>>>>,
     <<<<0, 0>>, <<0, 2>>, <<2, 2>>, <<2, 0>>, <<0, 0>>>>}

\* C5: when the run is over, every such way has made exactly one call, with
\* its street and number, no unit, not main, at the centroid of its polygon,
\* (1,1) for the square (0,0),(0,2),(2,2),(2,0); the store holds the key of
\* that call with the location of the first call made for the key, which is
\* the centroid when the way's call is that first one.
C5_CentroidSubmitted ==
    pc = "done" =>
        \A w \in DOMAIN ways :
            BuildingWay(w)
            => /\ Cardinality(CallsOfWay(w)) = 1
               /\ \A k \in CallsOfWay(w) :
                     /\ origins[k] = <<"way", w, "centroid">>
                     /\ submitted[k].street = StreetOf(ways[w])[1]
                     /\ submitted[k].number = ways[w][1]["addr:housenumber"]
                     /\ submitted[k].unit = None
                     /\ ~submitted[k].main
                     /\ submitted[k].location = Centroid(RingOf(ways[w][2]))
                     /\ RingOf(ways[w][2]) \in SquareRings
                           => submitted[k].location = IntPt(1, 1)
                     /\ submitted[k].address[4] = None
                     /\ DictHas(addresses, submitted[k].address)
                     /\ DictGet(addresses, submitted[k].address)
                           = submitted[FirstFor(k)].location

\* the closed square with a street from its relation: one record at (1,1)
C5_Witness ==
    /\ pc = "done"
    /\ \E w \in DOMAIN ways : \E k \in CallsOfWay(w) :
          /\ BuildingWay(w)
          /\ Len(ways[w][2]) = 5
          /\ ~Has(ways[w][1], "addr:street")
          /\ FirstFor(k) = k
          /\ DictGet(addresses, submitted[k].address) = IntPt(1, 1)

\* the first relation, in the order the loop took them, that lists id as a
\* member of the kind type
FirstLinker(id, type) ==
    LET ks == {k \in DOMAIN linkOrder :
                  \E t \in Range(relations[linkOrder[k]][2]) :
                      t[1] = id /\ t[2] = type}
    IN  IF ks = {} THEN NoStreet ELSE <<linkOrder[SetMin(ks)]>>

LinkedToFirst ==
    /\ \A id \in DOMAIN nodes :
          /\ Len(nodes[id][3]) <= 1
          /\ nodes[id][3] = FirstLinker(id, "node")
    /\ \A id \in DOMAIN ways :
          /\ Len(ways[id][3]) <= 1
          /\ ways[id][3] = FirstLinker(id, "way")

LinkKept ==
    /\ \A id \in DOMAIN nodes :
          nodes[id][3] # NoStreet => nodes'[id][3] = nodes[id][3]
    /\ \A id \in DOMAIN ways :
          ways[id][3] # NoStreet => ways'[id][3] = ways[id][3]

\* C9: at every moment each cached node and way holds no associated street
\* or the one relation that, of the relations the loop has taken so far,
\* was the first to list it as a member of its own kind; no step changes an
\* associated street that is set.
C9_FirstRelationWins == []LinkedToFirst /\ [][LinkKept]_vars

\* two relations list way 1, the loop took relation 2 first and way 1 keeps
\* it; node 1, of the same id, is listed by neither and has none
C9_Witness ==
    /\ pc = "done"
    /\ Len(linkOrder) = 2
    /\ linkOrder[1] = 2
    /\ 1 \in DOMAIN ways /\ 1 \in DOMAIN nodes
    /\ \A r \in DOMAIN relations :
          \E t \in Range(relations[r][2]) : t[1] = 1 /\ t[2] = "way"
    /\ ways[1][3] = <<2>>
    /\ nodes[1][3] = NoStreet

IsCentroidCall(origin) == origin[1] = "way" /\ Len(origin) = 3

\* C10: linking starts only when every block of the file has been through
\* its callback; a call to add_address is made only when every cached
\* relation has been linked; a centroid is computed only when every
\* coordinate of the file is cached; an osm_address bulk request is sent only
\* when every cached way has been assembled.
C10_StagesInSequence ==
    /\ (pc # "parse" \/ linkOrder # <<>>) => pending = {}
    /\ (submitted # <<>> \/ visited # {})
          => /\ pc \in {"nodes", "ways", "emit", "done", "crashed"}
             /\ Range(linkOrder) = DOMAIN relations
    /\ (\E k \in DOMAIN origins : IsCentroidCall(origins[k]))
          => /\ pc \in {"ways", "emit", "done", "crashed"}
             /\ \A b \in osmFile : b.kind = "coords" =>
                   \A i \in DOMAIN b.elems : b.elems[i][1] \in DOMAIN coords
    /\ (\E i \in DOMAIN sent : sent[i].doctype = "osm_address")
          => /\ pc \in {"emit", "done"}
             /\ \A w \in DOMAIN ways : <<"way", w>> \in visited

\* a finished run that linked a relation, computed a centroid and sent the
\* addresses
C10_Witness ==
    /\ pc = "done"
    /\ linkOrder # <<>>
    /\ \E k \in DOMAIN origins : IsCentroidCall(origins[k])
    /\ \E i \in DOMAIN sent : sent[i].doctype = "osm_address"

-----------------------------------------------------------------------------
(* The parser's threads.  OSMParser decodes the blocks in `concurrency`    *)
(* processes and hands the decoded elements of each kind to one thread of  *)
(* the importing process, which calls the callback of that kind with one   *)
(* block after the other.  The four threads run side by side; here a call  *)
(* advances one element at a time.                                         *)

Cache(kind) ==
    CASE kind = "coords" -> coords
      [] kind = "nodes" -> nodes
      [] kind = "ways" -> ways
      [] kind = "relations" -> relations

NewCall(block) == [block |-> block, rest |-> block.elems, operations |-> <<>>]

\* a pool of threads for each kind: a call starts whatever else is running
callback_starts_pooled(block) ==
    /\ pc = "parse"
    /\ block \in pending
    /\ active' = [active EXCEPT ![block.kind] = @ \cup {NewCall(block)}]
    /\ pending' = pending \ {block}
    /\ UNCHANGED <<osmFile, cacheVars, pc, todo, operations, sent, linkOrder,
                   origins, visited, writes>>
    /\ UNCHANGED <<ingestVars, csvVars, webVars, esVars, locatorVars, storeVars, apiVars>>

\* the thread of the block's kind, having returned from its last call,
\* calls the callback with the block (lines 64, 72, 99, 112)
callback_starts(block) ==
    /\ pc = "parse"
    /\ block \in pending
    /\ active[block.kind] = {}
    /\ active' = [active EXCEPT ![block.kind] = @ \cup {NewCall(block)}]
    /\ pending' = pending \ {block}
    /\ UNCHANGED <<osmFile, cacheVars, pc, todo, operations, sent, linkOrder,
                   origins, visited, writes>>
    /\ UNCHANGED <<ingestVars, csvVars, webVars, esVars, locatorVars, storeVars, apiVars>>

\* the caches a step wrote
Written == {k \in Kinds : Cache(k)' # Cache(k)}

\* one turn of the for loop of a running call (lines 68, 74, 100, 113)
callback_step(call) ==
    /\ pc = "parse"
    /\ call \in active[call.block.kind]
    /\ call.rest # <<>>
    /\ LET kind == call.block.kind
           elem == <<Head(call.rest)>>
           st == NodesAfter([nodes |-> nodes, operations |-> call.operations,
                             sent |-> sent], elem)
           after == [call EXCEPT !.rest = Tail(@),
                                 !.operations = IF kind = "nodes"
                                                THEN st.operations ELSE @]
       IN  /\ coords' = IF kind = "coords" THEN CoordsAfter(coords, elem)
                        ELSE coords
           /\ nodes' = IF kind = "nodes" THEN st.nodes ELSE nodes
           /\ sent' = IF kind = "nodes" THEN st.sent ELSE sent
           /\ ways' = IF kind = "ways" THEN WaysAfter(ways, elem) ELSE ways
           /\ relations' = IF kind = "relations"
                           THEN RelationsAfter(relations, elem) ELSE relations
           /\ active' = [active EXCEPT ![kind] = (@ \ {call}) \cup {after}]
           /\ writes' = [k \in Kinds |->
                            IF k \in Written THEN Append(writes[k], call.block)
                            ELSE writes[k]]
    /\ pc' = IF Raised(sent') THEN "crashed" ELSE pc
    /\ UNCHANGED <<osmFile, pending, todo, operations, linkOrder, origins,
                   visited>>
    /\ UNCHANGED <<ingestVars, csvVars, webVars, esVars, locatorVars, storeVars, apiVars>>

\* the loop of a call is over; nodes_callback sends what it has left (lines
\* 95-96) and the call returns
callback_returns(call) ==
    /\ pc = "parse"
    /\ call \in active[call.block.kind]
    /\ call.rest = <<>>
    /\ sent' = IF call.operations # <<>>
               THEN send_bulk(sent, call.operations, "poi")
               ELSE sent
    /\ active' = [active EXCEPT ![call.block.kind] = @ \ {call}]
    /\ pc' = IF Raised(sent') THEN "crashed" ELSE pc
    /\ UNCHANGED <<osmFile, pending, cacheVars, todo, operations, linkOrder,
                   origins, visited, writes>>
    /\ UNCHANGED <<ingestVars, csvVars, webVars, esVars, locatorVars, storeVars, apiVars>>

\* files of two coordinate blocks and two node blocks, with or without a
\* block of ways and a block of relations
ThreadFiles ==
    {  {[kind |-> "coords", elems |-> <<<<1, 0, 0>>, <<2, 0, 2>>>>],
        [kind |-> "coords", elems |-> <<<<3, 2, 2>>, <<4, 2, 0>>>>],
        [kind |-> "nodes",
         elems |-> <<<<1, House, NodePlaces[1]>>, <<2, HouseMain, NodePlaces[2]>>>>],
        [kind |-> "nodes",
         elems |-> <<<<3, HouseUnit, NodePlaces[3]>>, <<4, Kiosk, NodePlaces[4]>>>>]}
       \cup ws \cup rs :
       ws \in {{}, {[kind |-> "ways",
                     elems |-> <<<<1, HouseNumber, <<1, 2, 3, 4>>>>,
                                 <<2, House, <<2, 3, 4>>>>>>]}},
       rs \in {{}, {[kind |-> "relations",
                     elems |-> <<<<1, ("type" :> "street") @@ ("name" :> "Sivukuja"),
                                   <<<<1, "way", "house">>>>>>>>]}}}

InitThreads ==
    /\ InitLocator(StandardBoundaryFile)
    /\ addresses = {}
    /\ submitted = <<>>
    /\ InitApiOff
    /\ osmFile \in ThreadFiles
    /\ pending = osmFile
    /\ pc = "parse"
    /\ InitCaches
    /\ InitEsUp

NextThreads ==
    \/ \E block \in pending : callback_starts(block)
    \/ \E k \in Kinds : \E call \in active[k] : callback_step(call)
    \/ \E k \in Kinds : \E call \in active[k] : callback_returns(call)
    \/ ParserReturns
    \/ \E r_id \in todo : link_relation(r_id)
    \/ LinkingDone
    \/ \E id \in todo : assemble_node(id)
    \/ NodesDone
    \/ \E id \in todo : assemble_way(id)
    \/ WaysDone
    \/ \E item \in todo : emit_address(item)
    \/ EmitRest

SpecThreads == InitThreads /\ [][NextThreads]_vars

\* the calls that wrote a cache did so one after the other
Serialized(k) ==
    \A i, j \in DOMAIN writes[k] :
        \A m \in i..j : writes[k][i] = writes[k][j] => writes[k][m] = writes[k][i]

StoreWrittenByMain ==
    addresses' # addresses =>
        /\ pc \in {"nodes", "ways"}
        /\ pending = {}
        /\ \A k \in Kinds : active[k] = {}

-----------------------------------------------------------------------------
(* Runs of the import against a document store that may fail *)

MaxRequests == 3

EsPlans == [1..MaxRequests -> EsOutcomes]

InitBulk ==
    /\ InitLocator(StandardBoundaryFile)
    /\ addresses = {}
    /\ submitted = <<>>
    /\ InitApiOff
    /\ osmFile \in ThreadFiles
    /\ pending = osmFile
    /\ pc = "parse"
    /\ InitCaches
    /\ esPlan \in EsPlans
    /\ setup = <<>>

SpecBulk == InitBulk /\ [][NextImport]_vars

\* C12: a bulk request that the document store fails is logged and raises
\* nothing, so that the run goes on: it does not end in an exception, and
\* when it is over every address of the store has been put in a request.
C12_FailedChunkDropped ==
    /\ \A i \in DOMAIN sent :
          sent[i].outcome # "ok" =>
              /\ sent[i].logged
              /\ ~sent[i].raised
              /\ pc # "crashed"
    /\ pc = "done" =>
          \A item \in addresses :
              \E i \in DOMAIN sent : \E j \in DOMAIN sent[i].operations :
                  /\ sent[i].doctype = "osm_address"
                  /\ sent[i].operations[j] = AddressDocument(item)

-----------------------------------------------------------------------------
(* The start of main(): lines 160-181 *)

SetupCall(op, doctype, outcome) == [op |-> op, doctype |-> doctype, outcome |-> outcome]

\* lines 160-163
create_index(outcome) ==
    /\ pc = "create_index"
    /\ setup' = Append(setup, SetupCall("create_index", None, outcome))
    /\ pc' = IF outcome \in {"ok", "IndexAlreadyExistsError"} THEN "setup"
             ELSE "crashed"
    /\ todo' = IF pc' = "setup" THEN {"poi", "osm_address"} ELSE {}
    /\ UNCHANGED <<osmFile, pending, cacheVars, operations, sent, linkOrder,
                   origins, visited, threadVars>>
    /\ UNCHANGED <<ingestVars, csvVars, webVars, esPlan, locatorVars, storeVars, apiVars>>

\* the doctype the loop of line 164 takes next
NextDoctype == IF "poi" \in todo THEN "poi" ELSE "osm_address"

\* one turn of the loop of line 164 with put_mapping in a try block that
\* lets the run go on
prepare_doctype_lenient(deleted, mapped) ==
    /\ pc = "setup"
    /\ todo # {}
    /\ setup' = setup \o <<SetupCall("delete_all", NextDoctype, deleted),
                           SetupCall("put_mapping", NextDoctype, mapped)>>
    /\ todo' = todo \ {NextDoctype}
    /\ pc' = IF todo' = {} THEN "parse" ELSE "setup"
    /\ UNCHANGED <<osmFile, pending, cacheVars, operations, sent, linkOrder,
                   origins, visited, threadVars>>
    /\ UNCHANGED <<ingestVars, csvVars, webVars, esPlan, locatorVars, storeVars, apiVars>>

\* one turn of the loop of line 164: delete_all (lines 165-168), then
\* put_mapping (lines 170-181); after the last turn OSMParser.parse starts
prepare_doctype(deleted, mapped) ==
    /\ pc = "setup"
    /\ todo # {}
    /\ LET gone == deleted \in {"ok", "ElasticHttpNotFoundError"}
           fine == gone /\ mapped = "ok"
       IN  /\ setup' = setup
                  \o <<SetupCall("delete_all", NextDoctype, deleted)>>
                  \o (IF gone
                      THEN <<SetupCall("put_mapping", NextDoctype, mapped)>>
                      ELSE <<>>)
           /\ todo' = IF fine THEN todo \ {NextDoctype} ELSE {}
           /\ pc' = IF ~fine THEN "crashed"
                    ELSE IF todo' = {} THEN "parse" ELSE "setup"
    /\ UNCHANGED <<osmFile, pending, cacheVars, operations, sent, linkOrder,
                   origins, visited, threadVars>>
    /\ UNCHANGED <<ingestVars, csvVars, webVars, esPlan, locatorVars, storeVars, apiVars>>

InitSetup ==
    /\ InitLocator(StandardBoundaryFile)
    /\ addresses = {}
    /\ submitted = <<>>
    /\ InitApiOff
    /\ osmFile \in ThreadFiles
    /\ pending = osmFile
    /\ pc = "create_index"
    /\ InitCaches
    /\ InitEsUp

NextSetup ==
    \/ \E outcome \in {"ok", "IndexAlreadyExistsError", "ProtocolError"} :
          create_index(outcome)
    \/ \E deleted \in {"ok", "ElasticHttpNotFoundError", "ProtocolError"},
          mapped \in {"ok", "ElasticHttpError", "ProtocolError"} :
          prepare_doctype(deleted, mapped)
    \/ NextImport

SpecSetup == InitSetup /\ [][NextSetup]_vars

MappingFailed ==
    \E i \in DOMAIN setup : setup[i].op = "put_mapping" /\ setup[i].outcome # "ok"

NothingImported ==
    /\ pending = osmFile
    /\ coords = EmptyDict /\ nodes = EmptyDict
    /\ ways = EmptyDict /\ relations = EmptyDict
    /\ \A k \in Kinds : active[k] = {}
    /\ addresses = {} /\ submitted = <<>>
    /\ sent = <<>> /\ operations = <<>>

\* C13: when put_mapping has failed for a doctype, that call is the last
\* thing main() did to the document store, the run has ended with the
\* exception, no block of the file has been through a callback, the caches
\* and the store are empty and no bulk request was made.
C13_MappingFailureAborts ==
    MappingFailed =>
        /\ pc = "crashed"
        /\ setup[Len(setup)].op = "put_mapping"
        /\ setup[Len(setup)].outcome # "ok"
        /\ NothingImported

\* the mapping of the first doctype went in, that of the second failed
C13_Witness ==
    /\ MappingFailed
    /\ pc = "crashed"
    /\ \E i \in DOMAIN setup :
          /\ setup[i] = SetupCall("put_mapping", "poi", "ok")
          /\ setup[Len(setup)].doctype = "osm_address"
    /\ pending # {}

-----------------------------------------------------------------------------
(* The emission loop on its own: lines 269-280 over stores of several      *)
(* sizes around BULK_SIZE.  A store of up to MaxShuffled records is gone   *)
(* through in every order, a larger one in the order of its numbers.       *)

MaxShuffled == 3

StoreSizes == {0, 1, 2, MaxShuffled, BULK_SIZE - 1, BULK_SIZE, BULK_SIZE + 1,
               2 * BULK_SIZE, 2 * BULK_SIZE + 1}

\* n records of one street, numbers 1..n, every third with a unit and every
\* fifth outside the municipalities
StoreOfSize(n) ==
    {<<<<IF i % 5 = 0 THEN None ELSE "Helsinki", "Testroad", ToString(i),
         IF i % 3 = 0 THEN "A" ELSE None>>,
       IntPt(i, 1)>> : i \in 1..n}

InitEmit ==
    /\ InitLocator(StandardBoundaryFile)
    /\ \E n \in StoreSizes : addresses = StoreOfSize(n)
    /\ submitted = <<>>
    /\ InitApiOff
    /\ osmFile = {}
    /\ pending = {}
    /\ InitCaches
    /\ InitEsUp
    /\ pc = "ways"

\* the place of a record in the store's order
PlaceOf(item) == item[2][1]

NextEmit ==
    \/ WaysDone
    \/ \E item \in todo :
          /\ Cardinality(addresses) > MaxShuffled =>
                \A other \in todo : PlaceOf(item) <= PlaceOf(other)
          /\ emit_address(item)
    \/ EmitRest

SpecEmit == InitEmit /\ [][NextEmit]_vars

AddressRequests == {i \in DOMAIN sent : sent[i].doctype = "osm_address"}

\* the documents of the osm_address requests made so far
SentDocuments ==
    UNION {{<<i, j>> : j \in DOMAIN sent[i].operations} : i \in AddressRequests}

\* C14: when the run is over and no request failed, the documents of the
\* osm_address requests are the records of the store, one document for each
\* record, with the municipality, street, number and unit of its key and its
\* location; every request holds between 1 and BULK_SIZE operations and
\* every request but the last holds BULK_SIZE.
C14_StoreIsEmitted ==
    pc = "done" =>
        /\ \A i \in AddressRequests :
              /\ sent[i].outcome = "ok"
              /\ Len(sent[i].operations) >= 1
              /\ Len(sent[i].operations) <= BULK_SIZE
              /\ (\E k \in AddressRequests : k > i)
                    => Len(sent[i].operations) = BULK_SIZE
        /\ \A item \in addresses :
              Cardinality({d \in SentDocuments :
                              sent[d[1]].operations[d[2]] = AddressDocument(item)}) = 1
        /\ \A d \in SentDocuments :
              \E item \in addresses :
                  /\ sent[d[1]].operations[d[2]] = AddressDocument(item)
                  /\ sent[d[1]].operations[d[2]].municipality = item[1][1]
                  /\ sent[d[1]].operations[d[2]].street = item[1][2]
                  /\ sent[d[1]].operations[d[2]].number = item[1][3]
                  /\ sent[d[1]].operations[d[2]].unit = item[1][4]
                  /\ sent[d[1]].operations[d[2]].location = item[2]

\* a store of 2 * BULK_SIZE + 1 records has gone out in two full requests
\* and one of a single record
C14_Witness ==
    /\ pc = "done"
    /\ Cardinality(addresses) = 2 * BULK_SIZE + 1
    /\ Len(sent) = 3
    /\ Len(sent[1].operations) = BULK_SIZE
    /\ Len(sent[3].operations) = 1

\* ---------------------------------------------------------------------------
\* The search endpoints of the web API (src/geocoder/app.py)
\* ---------------------------------------------------------------------------

\* A Python string is the sequence of its characters.
DigitChars == <<"0", "1", "2", "3", "4", "5", "6", "7", "8", "9">>

IsDigit(c) == \E d \in DOMAIN DigitChars : DigitChars[d] = c

\* str(n) of a non-negative int
RECURSIVE str(_)
str(n) == IF n < 10 THEN <<DigitChars[n + 1]>>
          ELSE str(n \div 10) \o <<DigitChars[(n % 10) + 1]>>

\* re.match(r'\d*', s).group(): the longest prefix of s made of digits
RECURSIVE MatchDigits(_)
MatchDigits(s) ==
    IF s = <<>> \/ ~IsDigit(Head(s)) THEN <<>>
    ELSE <<Head(s)>> \o MatchDigits(Tail(s))

\* int(s) of a string of digits; int('') raises ValueError, which is
\* written as a value no int() of digits has
ValueError == -1

RECURSIVE IntOfDigits(_)
IntOfDigits(s) ==
    IF s = <<>> THEN 0
    ELSE 10 * IntOfDigits(SubSeq(s, 1, Len(s) - 1))
         + ((CHOOSE d \in DOMAIN DigitChars : DigitChars[d] = s[Len(s)]) - 1)

int(s) == IF s = <<>> THEN ValueError ELSE IntOfDigits(s)

\* the sort key of a result: the first digits of its number
address_key(a) == int(MatchDigits(a.number))

\* the result made of a hit of the OSM address index
OsmResult(addr) ==
    [municipalityFi |-> addr.municipality, municipalitySv |-> addr.municipality,
     streetFi |-> addr.street, streetSv |-> addr.street,
     number |-> addr.number, unit |-> addr.unit,
     location |-> addr.location, source |-> "OSM"]

\* the number of a hit of the official address index
OfficialNumber(addr) ==
    IF addr.osoitenumero = addr.osoitenumero2 THEN str(addr.osoitenumero)
    ELSE str(addr.osoitenumero) \o <<"-">> \o str(addr.osoitenumero2)

\* the result made of a hit of the official address index
OfficialResult(addr) ==
    [municipalityFi |-> addr.kaupunki, municipalitySv |-> addr.staden,
     streetFi |-> addr.katunimi, streetSv |-> addr.gatan,
     number |-> OfficialNumber(addr), unit |-> None,
     location |-> addr.location, source |-> "HRI.fi"]

\* the first loop of transform_es: every OSM hit is stored under its key
RECURSIVE OsmHitsInto(_, _)
OsmHitsInto(dict, hits) ==
    IF hits = <<>> THEN dict
    ELSE LET addr == Head(hits)
         IN  OsmHitsInto(Put(dict, <<addr.municipality, addr.street, addr.number>>,
                             OsmResult(addr)),
                         Tail(hits))

\* a second loop without the test of the key: the official hit replaces the
\* OSM hit of its key
RECURSIVE OfficialHitsOver(_, _)
OfficialHitsOver(dict, hits) ==
    IF hits = <<>> THEN dict
    ELSE LET addr == Head(hits)
         IN  OfficialHitsOver(Put(dict, <<addr.kaupunki, addr.katunimi,
                                          OfficialNumber(addr)>>,
                                  OfficialResult(addr)),
                              Tail(hits))

\* the second loop: an official hit is stored unless its key is taken
RECURSIVE OfficialHitsInto(_, _)
OfficialHitsInto(dict, hits) ==
    IF hits = <<>> THEN dict
    ELSE LET addr == Head(hits)
             id == <<addr.kaupunki, addr.katunimi, OfficialNumber(addr)>>
         IN  OfficialHitsInto(IF id \notin DOMAIN dict
                              THEN Put(dict, id, OfficialResult(addr)) ELSE dict,
                              Tail(hits))

\* the sequences that list every element of S once
Orderings(S) ==
    {q \in [1..Cardinality(S) -> S] : \A i, j \in 1..Cardinality(S) : q[i] = q[j] => i = j}

\* sorted(list(dict.values()), key=address_key): the values in the order of their
\* keys, values of one key in the order the dict iterates them, which the
\* language does not fix
Sorted(dict) ==
    {q \in Orderings({dict[k] : k \in DOMAIN dict}) :
        \A i, j \in DOMAIN q : i < j => address_key(q[i]) <= address_key(q[j])}

\* what a handler's code comes to: a body to write, or an exception
Returns(body) == [raises |-> None, body |-> body]
RaisesHTTPError(status) == [raises |-> "HTTPError", status |-> status]
Raises(exception) == [raises |-> exception, status |-> 500]

\* AddressSearchHandler.transform_es, inherited by StreetSearchHandler: the
\* set of its possible outcomes for the two responses of the multi search
search_transform_es(data) ==
    LET found == OfficialHitsInto(OsmHitsInto(EmptyDict, data.osm), data.official)
    IN  IF DOMAIN found = {} THEN {RaisesHTTPError(404)}
        ELSE IF \E k \in DOMAIN found : address_key(found[k]) = ValueError
        THEN {Raises("ValueError")}
        ELSE {Returns([results |-> q]) : q \in Sorted(found)}

\* transform_es of the other handlers, as far as the status goes: suggest
\* returns what it found, reverse and interpolate raise 404 without a hit
handler_transform_es(endpoint, data) ==
    CASE endpoint \in {"address", "street"} -> search_transform_es(data)
      [] endpoint = "suggest" -> {Returns(data.found)}
      [] OTHER -> IF data.found THEN {Returns(data.found)} ELSE {RaisesHTTPError(404)}

\* --- the answer ------------------------------------------------------------

NoReply == [status |-> 200, headers |-> EmptyDict, body |-> None, finished |-> 0]

\* finish_request: the CORS and content type headers, then finish()
finish_request(origin, r) ==
    [r EXCEPT !.headers = Put(Put(@, "Access-Control-Allow-Origin",
                                      IF origin # <<>> THEN origin[1] ELSE "*"),
                              "Content-Type", "application/json"),
              !.finished = @ + 1]

\* tornado's answer to an exception that leaves a handler: send_error()
\* clears the headers and the body, sets the status and finishes
send_error(origin, r, status) ==
    [status |-> status, headers |-> Put(EmptyDict, "Content-Type", "text/html"),
     body |-> "error page", finished |-> r.finished + 1]

\* the answer to an outcome of the handler's code
Answer(origin, r, outcome) ==
    IF outcome.raises # None THEN send_error(origin, r, outcome.status)
    ELSE finish_request(origin, [r EXCEPT !.body = outcome.body])

\* --- requests --------------------------------------------------------------

Endpoints == {"address", "street", "suggest", "reverse", "interpolate", "meta"}

Origins == {<<>>, <<"http://ui.example">>}

\* the street number of a request to /interpolate: a number or not
StreetNumbers == {<<"6">>, <<"6", "a">>}

\* get(): meta answers at once; interpolate reads its number with int();
\* the others send their query to Elasticsearch and wait
web_get(endpoint, origin, streetnumber) ==
    /\ request.state = "new"
    /\ \/ /\ endpoint = "meta"
          /\ reply' = finish_request(origin, [NoReply EXCEPT !.body = "updated"])
          /\ request' = [state |-> "done", endpoint |-> endpoint, origin |-> origin]
       \/ /\ endpoint = "interpolate"
          /\ \E c \in DOMAIN streetnumber : ~IsDigit(streetnumber[c])
          /\ reply' = send_error(origin, NoReply, 500)
          /\ request' = [state |-> "done", endpoint |-> endpoint, origin |-> origin]
       \/ /\ endpoint # "meta"
          /\ endpoint = "interpolate" => \A c \in DOMAIN streetnumber : IsDigit(streetnumber[c])
          /\ reply' = NoReply
          /\ request' = [state |-> "waiting", endpoint |-> endpoint, origin |-> origin]
    /\ UNCHANGED <<ingestVars, csvVars, esVars, locatorVars, storeVars, apiVars, osmVars>>

\* --- hits ------------------------------------------------------------------

Official(number, number2, letter, location) ==
    [kaupunki |-> "Helsinki", staden |-> "Helsingfors",
     katunimi |-> "Opastinsilta", gatan |-> "Semaforbron",
     osoitenumero |-> number, osoitenumero2 |-> number2,
     kiinteiston_jakokirjain |-> letter, location |-> location]

Osm(number, unit, location) ==
    [municipality |-> "Helsinki", street |-> "Opastinsilta",
     number |-> number, unit |-> unit, location |-> location]

OfficialHits ==
    {Official(8, 8, "", <<1, 1>>), Official(8, 8, "a", <<1, 2>>),
     Official(8, 8, "b", <<1, 3>>), Official(2, 4, "", <<1, 4>>),
     Official(10, 10, "", <<1, 5>>)}

OsmHits ==
    {Osm(<<"8", "a">>, None, <<2, 1>>), Osm(<<"8">>, "B", <<2, 2>>),
     Osm(<<"1", "2">>, None, <<2, 3>>), Osm(<<"A">>, None, <<2, 4>>)}

MaxOfficialHits == 3
MaxOsmHits == 2

HitLists(S, n) == UNION {Orderings(T) : T \in {U \in SUBSET S : Cardinality(U) <= n}}

\* what Elasticsearch may answer to the query of an endpoint
EsResponses(endpoint) ==
    IF endpoint \in {"address", "street"}
    THEN {[error |-> FALSE, official |-> o, osm |-> m] :
             o \in HitLists(OfficialHits, MaxOfficialHits),
             m \in HitLists(OsmHits, MaxOsmHits)}
         \cup {[error |-> TRUE, official |-> <<>>, osm |-> <<>>]}
    ELSE {[error |-> e, found |-> f] : e \in BOOLEAN, f \in BOOLEAN}

\* Handler.on_response: 500 on an error of Elasticsearch, else the
\* transformed data and finish_request
web_on_response ==
    /\ request.state = "waiting"
    /\ \E data \in EsResponses(request.endpoint) :
          \E outcome \in IF data.error THEN {RaisesHTTPError(500)}
                          ELSE handler_transform_es(request.endpoint, data) :
             /\ reply' = Answer(request.origin, reply, outcome)
             /\ request' = [state |-> "done", endpoint |-> request.endpoint,
                            origin |-> request.origin, data |-> data]
    /\ UNCHANGED <<ingestVars, csvVars, esVars, locatorVars, storeVars, apiVars, osmVars>>

InitWeb ==
    /\ request = [state |-> "new"]
    /\ reply = <<>>
    /\ csvfile = [module |-> "off"]
    /\ yielded = <<>>
    /\ ingest = [module |-> "off"]
    /\ apiApp = "off"
    /\ segments = {}
    /\ handler = [state |-> "off"]
    /\ usedHit = <<>>
    /\ fraction = <<>>
    /\ response = <<>>
    /\ InitLocator(StandardBoundaryFile)
    /\ addresses = {}
    /\ submitted = <<>>
    /\ InitOsmOff

NextWeb ==
    \/ \E endpoint \in Endpoints, origin \in Origins, n \in StreetNumbers :
          web_get(endpoint, origin, n)
    \/ web_on_response

SpecWeb == InitWeb /\ [][NextWeb]_vars

\* a search request that Elasticsearch answered without an error
SearchAnswered ==
    /\ request.state = "done"
    /\ request.endpoint \in {"address", "street"}
    /\ ~request.data.error

\* C15: an address or street search without a hit in either source answers
\* 404, and one with a hit in at least one source answers 200 with a
\* non-empty results array.
C15_HitsDecideStatus ==
    SearchAnswered =>
        IF request.data.official = <<>> /\ request.data.osm = <<>>
        THEN reply.status = 404
        ELSE /\ reply.status = 200
             /\ reply.body.results # <<>>

\* the division letter of an official hit, as characters
LetterChars(addr) ==
    IF addr.kiinteiston_jakokirjain = "" THEN <<>> ELSE <<addr.kiinteiston_jakokirjain>>

\* number is digits alone
Bare(number) == number # <<>> /\ MatchDigits(number) = number

\* number is the digits of bare followed by one letter
LetteredVariantOf(number, bare) ==
    /\ Len(number) = Len(bare) + 1
    /\ SubSeq(number, 1, Len(bare)) = bare
    /\ ~IsDigit(number[Len(number)])

\* C16: a street search lists its results in ascending order of the numeric
\* part of the number; the official hits of one number and different
\* division letters are separate entries, each with its letter; the bare
\* number stands before its lettered variants.
C16_StreetOrder ==
    (SearchAnswered /\ request.endpoint = "street" /\ reply.status = 200) =>
        LET results == reply.body.results
            official == request.data.official
        IN  /\ \A i, j \in DOMAIN results :
                   i < j => address_key(results[i]) <= address_key(results[j])
            /\ request.data.osm = <<>> =>
                   \A h \in DOMAIN official : \E i \in DOMAIN results :
                       /\ results[i].location = official[h].location
                       /\ results[i].number
                              = OfficialNumber(official[h]) \o LetterChars(official[h])
            /\ \A i, j \in DOMAIN results :
                   (Bare(results[i].number)
                    /\ LetteredVariantOf(results[j].number, results[i].number)) => i < j

\* C17: whatever the outcome of a request to one of the six endpoints, the
\* response carries Access-Control-Allow-Origin, equal to the request's
\* Origin when it has one and to '*' otherwise, and the request is finished
\* exactly once.
C17_CorsOnEveryResponse ==
    request.state = "done" =>
        /\ reply.finished = 1
        /\ "Access-Control-Allow-Origin" \in DOMAIN reply.headers
        /\ reply.headers["Access-Control-Allow-Origin"]
              = IF request.origin # <<>> THEN request.origin[1] ELSE "*"

\* the key of a result, of an OSM hit and of an official hit
ResultKey(r) == <<r.municipalityFi, r.streetFi, r.number>>
OsmKeys(data) == {<<data.osm[h].municipality, data.osm[h].street, data.osm[h].number>> :
                     h \in DOMAIN data.osm}
OfficialKeys(data) ==
    {<<data.official[h].kaupunki, data.official[h].katunimi,
       OfficialNumber(data.official[h])>> : h \in DOMAIN data.official}

\* C28: in an address or street search the results hold no key (municipality,
\* street, number) twice; the entry of a key that an OSM hit has is the OSM
\* one (source 'OSM', the location of an OSM hit of that key), also when an
\* official hit has the same key; official entries (source 'HRI.fi') stand
\* only for keys absent from the OSM hits; every key of a hit has its entry.
C28_OsmWinsOverOfficial ==
    (SearchAnswered /\ reply.status = 200) =>
        LET results == reply.body.results
            data == request.data
        IN  /\ \A i, j \in DOMAIN results :
                   ResultKey(results[i]) = ResultKey(results[j]) => i = j
            /\ \A k \in OsmKeys(data) \cup OfficialKeys(data) :
                   \E i \in DOMAIN results : ResultKey(results[i]) = k
            /\ \A i \in DOMAIN results :
                   IF ResultKey(results[i]) \in OsmKeys(data)
                   THEN /\ results[i].source = "OSM"
                        /\ \E h \in DOMAIN data.osm :
                              /\ results[i].location = data.osm[h].location
                              /\ results[i].number = data.osm[h].number
                              /\ results[i].unit = data.osm[h].unit
                   ELSE /\ results[i].source = "HRI.fi"
                        /\ ResultKey(results[i]) \in OfficialKeys(data)

\* a search answered 200 where both sources had a hit of one key, beside an
\* official hit of a key the OSM hits lack
C28_Witness ==
    /\ SearchAnswered
    /\ reply.status = 200
    /\ OsmKeys(request.data) \cap OfficialKeys(request.data) # {}
    /\ OfficialKeys(request.data) \ OsmKeys(request.data) # {}
    /\ Len(reply.body.results) = 2

\* the part of C17 about finishing
FinishedOnce == request.state = "done" => reply.finished = 1

\* ---------------------------------------------------------------------------
\* The import of the official addresses (src/geocoder/addresses.py and the
\* older src/addresses.py)
\* ---------------------------------------------------------------------------

\* the two kinds of value the number fields of a document take
PyStr(chars) == [type |-> "str", value |-> chars]
PyInt(n) == [type |-> "int", value |-> n]

\* the truth value of a string: it is not empty
Truthy(v) == v.value # <<>>

Modules == {"geocoder", "legacy"}

Deleted == {"yhdistekentta", "tyyppi", "tyyppi_selite", "ajo_pvm", "N", "E"}

\* pyproj's transform of the coordinates of a row to WGS84, lon first
transform(E, N) == <<"epsg:4326", E, N>>

\* lines 42-50 and 43-51, the same in both modules: the six fields are
\* deleted and location is added
Located(line) ==
    [f \in (DOMAIN line \ Deleted) \cup {"location"} |->
        IF f = "location" THEN transform(line["E"], line["N"]) ELSE line[f]]

\* geocoder/addresses.py lines 51-68: what documents() makes of one row
document(line) ==
    LET located == Located(line)
        number == IF Truthy(located["osoitenumero"])
                  THEN PyInt(IntOfDigits(located["osoitenumero"].value))
                  ELSE PyInt(0)
        number2 == IF Truthy(located["osoitenumero2"])
                   THEN PyInt(IntOfDigits(located["osoitenumero2"].value))
                   ELSE number
    IN  [f \in DOMAIN located \cup {"left_side"} |->
            CASE f = "osoitenumero" -> number
              [] f = "osoitenumero2" -> number2
              [] f = "left_side" -> (number.value % 2 = 0)
              [] OTHER -> located[f]]

\* src/addresses.py lines 52-58: what the older documents() makes of one row
document_legacy(line) ==
    LET located == Located(line)
    IN  [f \in DOMAIN located |->
            IF f \in {"osoitenumero", "osoitenumero2"} /\ Truthy(located[f])
            THEN PyInt(IntOfDigits(located[f].value))
            ELSE located[f]]

\* one step of the generator: the next row is read and its index operation
\* is yielded (an index operation is written as the document it indexes)
documents ==
    /\ csvfile.module \in Modules
    /\ csvfile.next <= Len(csvfile.rows)
    /\ LET line == csvfile.rows[csvfile.next]
       IN  yielded' = Append(yielded, IF csvfile.module = "geocoder"
                                      THEN document(line) ELSE document_legacy(line))
    /\ csvfile' = [csvfile EXCEPT !.next = @ + 1]
    /\ UNCHANGED <<ingestVars, webVars, esVars, locatorVars, storeVars, apiVars, osmVars>>

\* --- CSV files -------------------------------------------------------------

Row(katunimi, number, number2, letter) ==
    [katunimi |-> katunimi, osoitenumero |-> PyStr(number),
     osoitenumero2 |-> PyStr(number2), kiinteiston_jakokirjain |-> letter,
     kaupunki |-> "Helsinki", yhdistekentta |-> "yhdiste",
     N |-> "6674867", E |-> "25500025", gatan |-> "Adjutantstigen",
     staden |-> "Helsingfors", tyyppi |-> "1",
     tyyppi_selite |-> "osoite tai katu", ajo_pvm |-> "2015-01-13"]

Rows ==
    {Row("Adjutantinpolku", n, n2, "") :
        n \in {<<"2">>, <<"7">>, <<>>}, n2 \in {<<>>, <<"6">>}}
    \cup {Row("Virsutie", <<"7", "6">>, <<>>, "a")}

MaxRows == 2

CsvFiles == UNION {[1..n -> Rows] : n \in 0..MaxRows}

InitCsv ==
    /\ csvfile \in [module : Modules, rows : CsvFiles, next : {1}]
    /\ yielded = <<>>
    /\ ingest = [module |-> "off"]
    /\ request = [state |-> "off"]
    /\ reply = <<>>
    /\ apiApp = "off"
    /\ segments = {}
    /\ handler = [state |-> "off"]
    /\ usedHit = <<>>
    /\ fraction = <<>>
    /\ response = <<>>
    /\ InitLocator(StandardBoundaryFile)
    /\ addresses = {}
    /\ submitted = <<>>
    /\ InitOsmOff

NextCsv == documents

SpecCsv == InitCsv /\ [][NextCsv]_vars

\* C18: documents yields one index operation per data row, in row order;
\* in it the six fields are removed and location is the only field added,
\* osoitenumero is an integer and an empty osoitenumero2 is kept as the
\* empty string.
C18_DocumentPerRow ==
    /\ Len(yielded) <= Len(csvfile.rows)
    /\ csvfile.next > Len(csvfile.rows) => Len(yielded) = Len(csvfile.rows)
    /\ \A i \in DOMAIN yielded :
          LET line == csvfile.rows[i]
              doc == yielded[i]
          IN  /\ DOMAIN doc = (DOMAIN line \ Deleted) \cup {"location"}
              /\ doc["location"] = transform(line["E"], line["N"])
              /\ doc["osoitenumero"].type = "int"
              /\ ~Truthy(line["osoitenumero2"]) => doc["osoitenumero2"] = PyStr(<<>>)
              /\ \A f \in DOMAIN line \ (Deleted \cup {"osoitenumero", "osoitenumero2"}) :
                    doc[f] = line[f]

\* the record of key k is flagged main-entrance: a main-entrance candidate
\* was submitted for k, so it was stored or found a flagged record
ExistingMain(k) ==
    \E i \in DOMAIN submitted : submitted[i].address = k /\ submitted[i].main

\* a call for a key that is in the store overwrites the record when the
\* candidate is flagged and the record is not, and changes nothing otherwise
OverwriteOnlyMainOverOther ==
    (Len(submitted') = Len(submitted) + 1) =>
        LET c == submitted'[Len(submitted')]
        IN  DictHas(addresses, c.address) =>
                IF c.main /\ ~ExistingMain(c.address)
                THEN addresses' = DictSet(addresses, c.address, c.location)
                ELSE addresses' = addresses

\* the first main-entrance candidate of a key has its location stored
FirstMainKeeps ==
    \A i \in DOMAIN submitted :
        ( /\ submitted[i].main
          /\ \A j \in 1..(i - 1) :
                submitted[j].address = submitted[i].address => ~submitted[j].main )
        => DictGet(addresses, submitted[i].address) = submitted[i].location

\* C19: a call for a key already in the store overwrites the record only
\* if the candidate is flagged main-entrance and the record is not; every
\* other call for the key leaves the store unchanged, so the first of
\* several main-entrance candidates of a key keeps its location.
C19_FirstMainEntranceKept ==
    /\ []FirstMainKeeps
    /\ [][OverwriteOnlyMainOverOther]_vars

\* the unit get_unit is to return for a tag map
UnitOf(tags) ==
    IF Has(tags, "addr:unit") THEN tags["addr:unit"]
    ELSE IF Has(tags, "addr:staircase") THEN tags["addr:staircase"]
    ELSE None

\* C20: get_unit returns the addr:unit value if the map has one, else the
\* addr:staircase value if it has one, else none, and the flag true exactly
\* when the map has entrance=main, with or without a unit: so it is for
\* the tags of every node the run has called add_address for.
C20_UnitAndMainFlag ==
    \A k \in DOMAIN origins :
        origins[k][1] = "node" =>
            LET tags == nodes[origins[k][2]][1]
            IN  /\ get_unit(tags) = <<UnitOf(tags), IsMainEntrance(tags)>>
                /\ submitted[k].unit = UnitOf(tags)
                /\ submitted[k].main = IsMainEntrance(tags)

\* the loop over the nodes is over
NodesAssembled == pc \in {"ways", "emit", "done", "crashed"}

\* the calls made for node n
CallsOfNode(n) == {k \in DOMAIN origins : origins[k] = <<"node", n>>}

\* node n has a street tag or an associated relation
NodeHasStreet(n) == Has(nodes[n][1], "addr:street") \/ nodes[n][3] # NoStreet

\* the street of node n: its own tag, else the name of its relation
NodeStreet(n) ==
    IF Has(nodes[n][1], "addr:street") THEN nodes[n][1]["addr:street"]
    ELSE relations[nodes[n][3][1]][1]["name"]

\* C21 but for the flag: every cached node with a house number and a street
\* of either kind has made one call with that street, its number, location
\* and unit; one with neither has made none; every node had its turn
NodeSubmittedOnce ==
    NodesAssembled =>
        \A n \in DOMAIN nodes :
            /\ <<"node", n>> \in visited
            /\ Has(nodes[n][1], "addr:housenumber") =>
                  IF NodeHasStreet(n)
                  THEN /\ Cardinality(CallsOfNode(n)) = 1
                       /\ \A k \in CallsOfNode(n) :
                             /\ submitted[k].street = NodeStreet(n)
                             /\ submitted[k].number = nodes[n][1]["addr:housenumber"]
                             /\ submitted[k].location = nodes[n][2]
                             /\ submitted[k].unit = UnitOf(nodes[n][1])
                  ELSE CallsOfNode(n) = {}

\* C21: every cached node with a house number submits exactly one candidate
\* if it has a street tag or an associated relation, with its own street
\* tag if it has one and the relation's name otherwise, and with its
\* number, location, unit and main flag; a node with neither submits
\* nothing and the other nodes are still processed.
C21_NodeSubmittedOnce ==
    /\ NodeSubmittedOnce
    /\ NodesAssembled =>
          \A n \in DOMAIN nodes : \A k \in CallsOfNode(n) :
              submitted[k].main = IsMainEntrance(nodes[n][1])

\* way w has a house number and a street of either kind
HouseWay(w) == Has(ways[w][1], "addr:housenumber") /\ StreetOf(ways[w]) # <<>>

\* the places in the node list of way w
Members(w) == DOMAIN ways[w][2]

\* the member nodes of way w that are cached with a unit or entrance tag
TaggedEntrances(w) ==
    {i \in Members(w) :
        /\ ways[w][2][i] \in DOMAIN nodes
        /\ \E t \in {"addr:unit", "addr:staircase", "entrance"} :
              Has(nodes[ways[w][2][i]][1], t)}

\* the member nodes of way w that are cached with a unit or a staircase
\* that is not empty
UnitEntrances(w) ==
    {i \in Members(w) :
        /\ ways[w][2][i] \in DOMAIN nodes
        /\ ~Falsy(UnitOf(nodes[ways[w][2][i]][1]))}

\* the calls way w made for its member node n as an entrance
EntranceCallsOf(w, n) == {k \in DOMAIN origins : origins[k] = <<"way", w, "entrance", n>>}

CentroidCallsOf(w) == {k \in DOMAIN origins : origins[k] = <<"way", w, "centroid">>}

\* the call k is for node n as an entrance of the house way w
IsEntranceCall(k, w, n) ==
    /\ submitted[k].street = StreetOf(ways[w])[1]
    /\ submitted[k].number = ways[w][1]["addr:housenumber"]
    /\ submitted[k].location = nodes[n][2]
    /\ submitted[k].unit = UnitOf(nodes[n][1])
    /\ submitted[k].main = IsMainEntrance(nodes[n][1])

\* way w has had its turn
WayAssembled(w) == <<"way", w>> \in visited

\* way w has at least three member nodes, all with coordinates
HasRing(w) ==
    /\ Len(ways[w][2]) >= 3
    /\ \A i \in Members(w) : ways[w][2][i] \in DOMAIN coords

Resolved(w) == {i \in Members(w) : ways[w][2][i] \in DOMAIN coords}

\* the calls way w made
CallsOfWayId(w) == {k \in DOMAIN origins : origins[k][1] = "way" /\ origins[k][2] = w}

\* C23: a house way without a qualifying entrance whose member nodes
\* resolve to fewer than three coordinates, the list being short or ids
\* being absent from the coordinate cache, submits nothing and raises
\* nothing; the remaining ways are processed and the store is emitted.
C23_UnresolvedWaySkipped ==
    \A w \in DOMAIN ways :
        ( /\ HouseWay(w)
          /\ WayAssembled(w)
          /\ UnitEntrances(w) = {}
          /\ Cardinality(Resolved(w)) < 3 )
        => /\ CallsOfWayId(w) = {}
           /\ ~WayCalls(w).raised
           /\ (\A v \in DOMAIN ways : ~WayCalls(v).raised) => pc # "crashed"

\* the part of C23 about a way that lists fewer than three member nodes
ShortWaySkipped ==
    \A w \in DOMAIN ways :
        (HouseWay(w) /\ WayAssembled(w) /\ Len(ways[w][2]) < 3 /\ UnitEntrances(w) = {})
        => /\ CallsOfWayId(w) = {}
           /\ ~WayCalls(w).raised
           /\ (\A v \in DOMAIN ways : ~WayCalls(v).raised) => pc # "crashed"

\* C24: a way with a street tag and no house number submits a record under
\* its street name only for member nodes with a house number and no street
\* tag of their own.
C24_OnlyNodesWithoutStreet ==
    \A k \in DOMAIN origins :
        (origins[k][1] = "way" /\ origins[k][3] = "member") =>
            HouseNodeWithoutStreet(nodes[origins[k][4]][1])

\* the elements of the file of one kind
FileElements(kind) == UNION {Range(b.elems) : b \in {c \in osmFile : c.kind = kind}}

\* the parse has returned and no relation has been walked yet
JustParsed == pc = "link" /\ todo = DOMAIN relations

\* C25: after the parse every entry of the node cache and of the way cache
\* has a tag key that starts with 'addr:' and no associated street yet,
\* every way element with such a key is in the way cache and every
\* coordinate element is in the coordinate cache.
C25_CachesAfterParse ==
    JustParsed =>
        /\ \A n \in DOMAIN nodes : HasAddrTag(nodes[n][1]) /\ nodes[n][3] = NoStreet
        /\ \A w \in DOMAIN ways : HasAddrTag(ways[w][1]) /\ ways[w][3] = NoStreet
        /\ \A e \in FileElements("ways") :
              HasAddrTag(e[2]) => (e[1] \in DOMAIN ways
                                   /\ ways[e[1]] = <<e[2], e[3], NoStreet>>)
        /\ \A e \in FileElements("coords") :
              e[1] \in DOMAIN coords /\ coords[e[1]] = IntPt(e[2], e[3])

\* a parsed file with a way that is cached and a way that is not
C25_Witness ==
    /\ JustParsed
    /\ DOMAIN ways # {}
    /\ \E e \in FileElements("ways") : e[1] \notin DOMAIN ways
    /\ DOMAIN coords # {}

\* a relation the cache is to keep
StreetRelation(tags) ==
    /\ Has(tags, "type")
    /\ tags["type"] \in {"street", "associatedStreet"}
    /\ Has(tags, "name")

\* the entry has no associated street or one that is in the relation cache
StreetResolves(entry) ==
    entry[3] # NoStreet =>
        (entry[3][1] \in DOMAIN relations /\ Has(relations[entry[3][1]][1], "name"))

\* C26: every cached relation has type street or associatedStreet and a
\* name, every other relation of the file is discarded, and in every state
\* the associated street of a cached node or way is a cached relation, so
\* that its name can be read.
C26_StreetRelationsOnly ==
    /\ \A r \in DOMAIN relations : StreetRelation(relations[r][1])
    /\ pc # "parse" =>
          \A e \in FileElements("relations") :
              e[1] \in DOMAIN relations <=> StreetRelation(e[2])
    /\ \A n \in DOMAIN nodes : StreetResolves(nodes[n])
    /\ \A w \in DOMAIN ways : StreetResolves(ways[w])

\* a run that is over, in which a relation was discarded and a way took
\* its street from a relation
C26_Witness ==
    /\ pc = "done"
    /\ \E e \in FileElements("relations") : e[1] \notin DOMAIN relations
    /\ \E k \in DOMAIN origins :
          /\ origins[k][1] = "way"
          /\ ways[origins[k][2]][3] # NoStreet
          /\ submitted[k].street = relations[ways[origins[k][2]][3][1]][1]["name"]

\* ---------------------------------------------------------------------------
\* The import of road segments (src/geocoder/mml_addresses.py and the older
\* src/mml_addresses.py)
\* ---------------------------------------------------------------------------

\* findtext gives None, written <<>>, or the text of the element, written
\* <<text>>; the text of a number is the sequence of its characters
NoText == <<>>

\* `a is not '0' and a is not None`.  The interpreter shares the strings of
\* one character, so that the identity test on '0' is a test of equality.
not_zero_or_none(a) == a # NoText /\ a[1] # <<"0">>

\* the sides of a road and their element names
Sides == {"Vasen", "Oikea"}

find_min(line, side) == IF side = "Vasen" THEN line.minVasen ELSE line.minOikea

find_max(line, side) == IF side = "Vasen" THEN line.maxVasen ELSE line.maxOikea

\* side.lower() in the keys of the document
MinKey(side) == IF side = "Vasen" THEN "min_vasen" ELSE "min_oikea"

MaxKey(side) == IF side = "Vasen" THEN "max_vasen" ELSE "max_oikea"

\* the value `int(text),` of the older module: a tuple of one int
PyTuple(n) == [type |-> "tuple", value |-> <<n>>]

\* a side has a minimum or a maximum
SideGiven(line, side) ==
    not_zero_or_none(find_min(line, side)) \/ not_zero_or_none(find_max(line, side))

\* a side has both
SideComplete(line, side) ==
    not_zero_or_none(find_min(line, side)) /\ not_zero_or_none(find_max(line, side))

\* find_minmax with the bounds saved whenever one of them is given
find_minmax_either(line, doc, side) ==
    IF SideGiven(line, side)
    THEN (IF not_zero_or_none(find_min(line, side))
          THEN MinKey(side) :> PyInt(IntOfDigits(find_min(line, side)[1]))
          ELSE EmptyDict)
         @@ (IF not_zero_or_none(find_max(line, side))
             THEN MaxKey(side) :> PyInt(IntOfDigits(find_max(line, side)[1]))
             ELSE EmptyDict)
         @@ doc
    ELSE doc

\* geocoder/mml_addresses.py find_minmax: the two bounds of a side are saved
\* as ints when both are given
find_minmax(line, doc, side) ==
    IF SideGiven(line, side) /\ SideComplete(line, side)
    THEN (MinKey(side) :> PyInt(IntOfDigits(find_min(line, side)[1])))
         @@ (MaxKey(side) :> PyInt(IntOfDigits(find_max(line, side)[1])))
         @@ doc
    ELSE doc

\* mml_addresses.py lines 88-109: the same with tuples of one int
find_minmax_legacy(line, doc, side) ==
    IF SideGiven(line, side) /\ SideComplete(line, side)
    THEN (MinKey(side) :> PyTuple(IntOfDigits(find_min(line, side)[1])))
         @@ (MaxKey(side) :> PyTuple(IntOfDigits(find_max(line, side)[1])))
         @@ doc
    ELSE doc

\* find_name: the names found, each filled from the other when it is
\* missing; <<>> for NoNameFoundException
find_name(doc, line) ==
    LET named == (IF line.nimi_ruotsi # NoText THEN "namn" :> line.nimi_ruotsi[1]
                  ELSE EmptyDict)
                 @@ (IF line.nimi_suomi # NoText THEN "nimi" :> line.nimi_suomi[1]
                     ELSE EmptyDict)
                 @@ doc
    IN  IF ~Has(named, "namn") /\ ~Has(named, "nimi") THEN <<>>
        ELSE IF ~Has(named, "namn") THEN <<("namn" :> named["nimi"]) @@ named>>
        ELSE IF ~Has(named, "nimi") THEN <<("nimi" :> named["namn"]) @@ named>>
        ELSE <<named>>

\* the turn of the loop over the Tieviiva elements for one of them: <<>>
\* when it is skipped, else the document of the index operation it yields
RoadDocument(module, line, filename) ==
    LET doc == "filename" :> filename
        sides == IF module = "geocoder"
                 THEN find_minmax(line, find_minmax(line, doc, "Vasen"), "Oikea")
                 ELSE find_minmax_legacy(line, find_minmax_legacy(line, doc, "Vasen"),
                                         "Oikea")
        \* the older module leaves the element at a side that has one bound
        left == module = "legacy"
                /\ \E side \in Sides : SideGiven(line, side) /\ ~SideComplete(line, side)
    IN  IF left THEN <<>>
        ELSE IF ~Has(sides, "min_vasen") /\ ~Has(sides, "min_oikea") THEN <<>>
        ELSE IF find_name(sides, line) = <<>> THEN <<>>
        ELSE <<("location" :> line.posList) @@ find_name(sides, line)[1]>>

\* the first element of the tuple or the int itself
Number(v) == IF v.type = "tuple" THEN v.value[1] ELSE v.value

\* the range of a side as the store has it
StoredRange(doc, side) ==
    IF Has(doc, MinKey(side)) /\ Has(doc, MaxKey(side))
    THEN <<Number(doc[MinKey(side)]), Number(doc[MaxKey(side)])>>
    ELSE <<>>

\* the document as the store returns it: a tuple has become an array, an
\* int a number; id stands for the identifier the store gives it
Stored(id, doc) ==
    [id |-> id, filename |-> doc["filename"], nimi |-> doc["nimi"],
     namn |-> doc["namn"],
     stored |-> IF \E k \in DOMAIN doc : k \in {"min_vasen", "min_oikea"}
                                          /\ doc[k].type = "tuple"
                THEN "array" ELSE "number",
     vasen |-> StoredRange(doc, "Vasen"), oikea |-> StoredRange(doc, "Oikea"),
     location |-> doc["location"]]

\* ES.delete_by_query(query="filename:%s" % filename)
delete_by_query(store, filename) == {d \in store : d.filename # filename}

DOCS_PER_CHUNK == 500

\* the generator documents() resumed from g = [file, line, store, emitted],
\* line 0 standing for a file whose read_file has not started: it runs the
\* delete of every file it enters and stops at its next yield, g.action the
\* operation yielded, or at its end, g.action = <<>>
RECURSIVE Resume(_)
Resume(g) ==
    IF g.file > Len(ingest.files) THEN [g EXCEPT !.action = <<>>]
    ELSE LET f == ingest.files[g.file]
         IN  IF g.line = 0
             THEN Resume([g EXCEPT !.store = delete_by_query(@, f.filename),
                                   !.line = 1])
             ELSE IF g.line > Len(f.lines)
             THEN Resume([g EXCEPT !.file = @ + 1, !.line = 0])
             ELSE LET doc == RoadDocument(ingest.module, f.lines[g.line], f.filename)
                      next == [g EXCEPT !.line = @ + 1]
                  IN  IF doc = <<>> THEN Resume(next)
                      ELSE [next EXCEPT
                               !.action = <<Stored(<<g.file, g.line>>, doc[1])>>,
                               !.emitted = Append(@, doc[1])]

\* one turn of the loop of pyelasticsearch.bulk_chunks, which main() drives:
\* the generator is resumed; the operation it yields joins the chunk, unless
\* the chunk holds docs_per_chunk operations, which are then handed out and
\* sent with ES.bulk while the operation starts the next chunk; at the end
\* of the generator the rest of the chunk is sent
next_operation ==
    /\ ingest.module \in Modules
    /\ ~ingest.done
    /\ LET r == Resume([file |-> ingest.file, line |-> ingest.line,
                        store |-> segments, emitted |-> ingest.emitted,
                        action |-> <<>>])
           full == ingest.chunk # <<>> /\ Len(ingest.chunk) >= DOCS_PER_CHUNK
           sends == r.action = <<>> \/ full
       IN  /\ segments' = IF sends THEN r.store \cup Range(ingest.chunk) ELSE r.store
           /\ ingest' = [ingest EXCEPT
                            !.file = r.file, !.line = r.line,
                            !.emitted = r.emitted,
                            !.chunk = IF r.action = <<>> THEN <<>>
                                      ELSE IF full THEN r.action
                                      ELSE Append(@, r.action[1]),
                            !.done = (r.action = <<>>)]
    /\ UNCHANGED <<apiApp, handler, usedHit, fraction, response>>
    /\ UNCHANGED <<csvVars, webVars, esVars, locatorVars, storeVars, osmVars>>

\* --- GML files -------------------------------------------------------------

Tieviiva(minVasen, maxVasen, minOikea, maxOikea, nimi_suomi, nimi_ruotsi) ==
    [minVasen |-> minVasen, maxVasen |-> maxVasen,
     minOikea |-> minOikea, maxOikea |-> maxOikea,
     nimi_suomi |-> nimi_suomi, nimi_ruotsi |-> nimi_ruotsi,
     posList |-> StraightLine]

Text(t) == <<t>>

\* road elements with every mix of given, missing and '0' bounds and names
Tieviivat ==
    {Tieviiva(a, b, c, d, fi, sv) :
        a \in {NoText, Text(<<"0">>), Text(<<"2">>)},
        b \in {NoText, Text(<<"0">>), Text(<<"1", "0">>)},
        c \in {NoText, Text(<<"0">>), Text(<<"1">>)},
        d \in {NoText, Text(<<"0">>), Text(<<"9">>)},
        fi \in {NoText, Text("Mannerheimintie")},
        sv \in {NoText, Text("Mannerheimvagen")}}

\* a road with both sides and both names
Road == Tieviiva(Text(<<"2">>), Text(<<"1", "0">>), Text(<<"1">>), Text(<<"9">>),
                 Text("Mannerheimintie"), Text("Mannerheimvagen"))

\* a file of n roads
Tile(filename, n) == [filename |-> filename, lines |-> [i \in 1..n |-> Road]]

\* the sizes of the files that are read first: small, and around the size
\* of a chunk
SmallTileSizes == {1, 2}

ChunkTileSizes == {DOCS_PER_CHUNK, DOCS_PER_CHUNK + 1}

MaxTileLines == 2

\* the runs: one file of one road element of any kind; or a tile and then
\* a small file of the same or of another name, and perhaps a third
FileLists ==
    {<<[filename |-> "L4133R.xml", lines |-> <<e>>]>> : e \in Tieviivat}
    \cup {<<Tile("L4133R.xml", n), Tile(name, m)>> :
             n \in SmallTileSizes, m \in 0..MaxTileLines,
             name \in {"L4133R.xml", "L4134L.xml"}}
    \cup {<<Tile("L4133R.xml", n), Tile("L4133R.xml", 1)>> : n \in ChunkTileSizes}
    \cup {<<Tile("L4133R.xml", 1), Tile("L4134L.xml", 1), Tile("L4133R.xml", m)>> :
             m \in 0..MaxTileLines}

InitSegments ==
    /\ ingest \in [module : Modules, files : FileLists, file : {1}, line : {0},
                   chunk : {<<>>}, emitted : {<<>>}, done : {FALSE}]
    /\ apiApp = ingest.module
    /\ segments = {}
    /\ handler = [state |-> "new"]
    /\ usedHit = <<>>
    /\ fraction = <<>>
    /\ response = <<>>
    /\ request = [state |-> "off"]
    /\ reply = <<>>
    /\ csvfile = [module |-> "off"]
    /\ yielded = <<>>
    /\ InitLocator(StandardBoundaryFile)
    /\ addresses = {}
    /\ submitted = <<>>
    /\ InitOsmOff

\* a request for the interpolation is made when the import is over
NextSegments ==
    \/ next_operation
    \/ /\ ingest.done
       /\ \E streetnumber \in 1..MaxNumber : get("Mannerheimintie", streetnumber)
    \/ /\ ingest.done
       /\ on_response(FALSE)

SpecSegments == InitSegments /\ [][NextSegments]_vars

\* a request that the import's documents can answer has been answered
AnsweredWithHit ==
    /\ handler.state = "done"
    /\ \E d \in segments : Matches(d, handler)

\* C27: for the segment documents the import has stored and a requested
\* number n, the query takes the even side for an even n and the odd side
\* for an odd n, its first match has the requested name and min <= n <= max
\* on that side, and the answer is a coordinate at a fraction in [0, 1],
\* not an error.
C27_StoredSegmentInterpolates ==
    /\ handler.state # "new" =>
          handler.side = (IF handler.streetnumber % 2 = 0 THEN "vasen" ELSE "oikea")
    /\ AnsweredWithHit =>
          /\ response.status = 200
          /\ Len(response.coordinates) = 1
          /\ usedHit # <<>>
          /\ Lower(usedHit[1].nimi) = "mannerheimintie"
          /\ SideRange(usedHit[1], handler.side)[1] <= handler.streetnumber
          /\ handler.streetnumber <= SideRange(usedHit[1], handler.side)[2]
          /\ fraction # <<>>
          /\ FracLE(Frac(0, 1), fraction)
          /\ FracLE(fraction, Frac(1, 1))

\* C27 of the older pair of modules, whose import stores tuples
LegacySegmentInterpolates == ingest.module = "legacy" => C27_StoredSegmentInterpolates


\* a bound that the element gives: present and not '0'
Given(text) == text # NoText /\ text # Text(<<"0">>)

\* document d says of the road element line what C29 lets it say
Describes(d, line) ==
    /\ Has(d, "nimi") /\ Has(d, "namn")
    /\ d["nimi"] = IF line.nimi_suomi # NoText THEN line.nimi_suomi[1]
                   ELSE line.nimi_ruotsi[1]
    /\ d["namn"] = IF line.nimi_ruotsi # NoText THEN line.nimi_ruotsi[1]
                   ELSE line.nimi_suomi[1]
    /\ \E side \in Sides : Has(d, MinKey(side)) /\ Has(d, MaxKey(side))
    /\ \A side \in Sides :
          /\ Has(d, MinKey(side)) <=> Has(d, MaxKey(side))
          /\ Has(d, MinKey(side)) =>
                /\ Given(find_min(line, side)) /\ Given(find_max(line, side))
                /\ Number(d[MinKey(side)]) = IntOfDigits(find_min(line, side)[1])
                /\ Number(d[MaxKey(side)]) = IntOfDigits(find_max(line, side)[1])

\* C29: every road document that read_file emits has nimi and namn, the
\* missing one filled from the other, and both bounds of at least one side;
\* none has one bound of a side without the other, and a bound that is '0'
\* or missing is absent from the document.  Stated of the document emitted
\* last, which every emitted document is in the state after its yield.
C29_EmittedRoadDocuments ==
    (ingest.module \in Modules /\ ingest.emitted # <<>>) =>
            LET d == ingest.emitted[Len(ingest.emitted)]
            IN  \E f \in DOMAIN ingest.files :
                    /\ ingest.files[f].filename = d["filename"]
                    /\ \E l \in DOMAIN ingest.files[f].lines :
                           Describes(d, ingest.files[f].lines[l])

\* a document was emitted for an element with one name, a '0' on a side
\* that has the other bound, and a complete other side
C29_Witness ==
    /\ ingest.module \in Modules
    /\ Len(ingest.files) = 1
    /\ Len(ingest.emitted) = 1
    /\ LET line == ingest.files[1].lines[1]
       IN  /\ line.nimi_suomi = NoText
           /\ line.minVasen = Text(<<"0">>)
           /\ Given(line.maxVasen)
           /\ ~Has(ingest.emitted[1], "max_vasen")
           /\ ingest.emitted[1]["nimi"] = "Mannerheimvagen"


\* the last file of the run with the name of file f
LastOfName(f) ==
    CHOOSE g \in DOMAIN ingest.files :
        /\ ingest.files[g].filename = ingest.files[f].filename
        /\ \A h \in DOMAIN ingest.files :
              ingest.files[h].filename = ingest.files[f].filename => h <= g

\* C30: after a run over any sequence of segment files the store holds, for
\* each filename, exactly the documents of the file read last with that
\* name, wherever the boundaries of the chunks of 500 fall.  A stored
\* document is known by the file and the element it was made of.
C30_StoreHoldsLastFile ==
    (ingest.module \in Modules /\ ingest.done) =>
        /\ \A d \in segments : d.id[1] = LastOfName(d.id[1])
        /\ \A f \in DOMAIN ingest.files :
              f = LastOfName(f) =>
                  \A l \in DOMAIN ingest.files[f].lines :
                      RoadDocument(ingest.module, ingest.files[f].lines[l],
                                   ingest.files[f].filename) # <<>>
                          => \E d \in segments : d.id = <<f, l>>

\* the part of C30 that holds: nothing of the last file of a name is lost,
\* and a name read once has exactly its documents
LastFileStored ==
    (ingest.module \in Modules /\ ingest.done) =>
        /\ \A f \in DOMAIN ingest.files :
              f = LastOfName(f) =>
                  \A l \in DOMAIN ingest.files[f].lines :
                      RoadDocument(ingest.module, ingest.files[f].lines[l],
                                   ingest.files[f].filename) # <<>>
                          => \E d \in segments : d.id = <<f, l>>
        /\ \A d \in segments :
              /\ d.filename = ingest.files[d.id[1]].filename
              /\ d.id[2] \in DOMAIN ingest.files[d.id[1]].lines

====
